---- MODULE Spec2Model ----
(***************************************************************************)
(* A model of the hft-matching-engine: the price-time-priority order book  *)
(* (OrderBook::addOrder / cancelOrder / sortOrders / matchOrders) and the  *)
(* session layer that drives it (Session::doRead and the MarketPublisher   *)
(* fan-out).  Prices are modelled in whole ticks: the code compares the    *)
(* doubles it parsed with <, > and != only, which is the order of the      *)
(* integers on tick values.                                                *)
(***************************************************************************)
EXTENDS Integers, Sequences, FiniteSets, TLC

\* ------------------------------------------------------------ bounds
MaxAdds == 3      \* addOrder calls in one run
MaxPrice == 2     \* prices are 1..MaxPrice ticks
MaxQty == 2       \* quantities are 1..MaxQty
NumSessions == 2  \* connections the server accepts in one run
MaxLines == 3     \* lines that arrive, all sessions together, in one run of the event loop
MaxReady == 2     \* completions are reported while fewer than this are ready
MaxOrders == 4    \* orders placed in the runs with any price token

Prices == 1..MaxPrice
Quantities == 1..MaxQty
OrderTypes == {"BUY", "SELL"}

\* ------------------------------------------------------------ state
VARIABLES
    buyOrders,      \* OrderBook::buyOrders, a deque of Order
    sellOrders,     \* OrderBook::sellOrders
    nextOrderId,    \* OrderBook::nextOrderId
    trades,         \* OrderBook::trades, the trade log
    recentCursor,   \* the recent-trades cursor: the trades before it were read
    serverSessions,     \* EngineServer::sessions_, the sessions the server owns
    publisherSessions,  \* MarketPublisher::sessions_, the registered weak references
    reading,        \* per session: an async_read_until is outstanding
    dcTimer,        \* the sessions whose 100 ms timer after DC is pending
    numAccepted,    \* the connections accepted so far; session k is the k-th
    runq,           \* the io_context's queue of handlers ready to run, oldest first
    io,             \* "run": io.run() is running; "stopped": io.stop() was called;
                    \* "threw": an exception left io.run(); "exited": main returned;
                    \* "crashed": the process ended
    shutdownRequested,  \* EngineServer::shutdownRequested_
    acceptorOpen,   \* the acceptor is open
    clientAddress,  \* per session: Session::clientAddress_
    disconnected,   \* per session: Session::disconnected_
    socketOpen,     \* per session: socket_.is_open()
    writing,        \* per session: Session::writing_
    writeQueue,     \* per session: Session::writeQueue_
    inflight,       \* per session: the async_write operations outstanding
    peerClosed,     \* the sessions whose connection the client closed or that broke
    notified,       \* history: per session, the calls of disconnectCallback_
    sendCount,      \* history: per session, the sendMessage calls made on it
    wire,           \* history: per session, the numbers of the messages given to async_write
    linesIn,        \* history: the lines that arrived
    ids,            \* history: the ids addOrder returned, in call order
    submitted,      \* history: per side, the total quantity given to addOrder
    cancelledQty,   \* history: per side, the quantity cancelOrder removed
    cancelledIds,   \* history: the ids of the orders cancelOrder removed
    drained,        \* history: the concatenation of all getRecentTrades results
    matched,        \* history: matchOrders has returned and no addOrder was called since
    last            \* history: the last operation, its arguments and its result

bookVars == <<buyOrders, sellOrders, nextOrderId, trades, recentCursor>>
sessionVars == <<serverSessions, publisherSessions, reading, dcTimer, numAccepted>>
histVars == <<ids, submitted, cancelledQty, cancelledIds, drained, matched, last>>
loopVars == <<runq, io, shutdownRequested, acceptorOpen, clientAddress,
              disconnected, socketOpen, writing, writeQueue, inflight,
              peerClosed, notified, sendCount, wire, linesIn>>
vars == <<buyOrders, sellOrders, nextOrderId, trades, recentCursor,
          serverSessions, publisherSessions, reading, dcTimer, numAccepted,
          ids, submitted, cancelledQty, cancelledIds, drained, matched, last,
          runq, io, shutdownRequested, acceptorOpen, clientAddress,
          disconnected, socketOpen, writing, writeQueue, inflight,
          peerClosed, notified, sendCount, wire, linesIn>>

\* ------------------------------------------------------------ values
Min(a, b) == IF a < b THEN a ELSE b

Range(s) == {s[i] : i \in DOMAIN s}

\* A price is a double: a number of ticks, or the value that is not a number,
\* which std::stod returns for the token "nan".  Every ordered comparison
\* with it is false and it differs from every value, itself included.
NaN == 0 - 1
lt(x, y) == x # NaN /\ y # NaN /\ x < y
gt(x, y) == x # NaN /\ y # NaN /\ x > y
le(x, y) == x # NaN /\ y # NaN /\ x <= y
ne(x, y) == x = NaN \/ y = NaN \/ x # y

\* Order::Order(id, type, price, quantity)
Order(id, type, price, quantity) ==
    [id |-> id, type |-> type, price |-> price, quantity |-> quantity]

\* Trade::Trade(buyOrderId, sellOrderId, price, quantity)
Trade(buyOrderId, sellOrderId, price, quantity) ==
    [buyOrderId |-> buyOrderId, sellOrderId |-> sellOrderId,
     price |-> price, quantity |-> quantity]

\* The OrderBook object: its fields as one record.
Book ==
    [buyOrders |-> buyOrders, sellOrders |-> sellOrders,
     nextOrderId |-> nextOrderId, trades |-> trades,
     recentCursor |-> recentCursor]

\* ------------------------------------------------------------ OrderBook
\* Mutant of addOrder: an order that crosses the front order of the opposite
\* side takes that order out instead of resting.
addOrder_taking(b, type, price, quantity) ==
    LET order == Order(b.nextOrderId, type, price, quantity)
        b1 == [b EXCEPT !.nextOrderId = b.nextOrderId + 1]
    IN  [book |-> IF type = "BUY"
                  THEN IF b.sellOrders # <<>> /\ Head(b.sellOrders).price <= price
                       THEN [b1 EXCEPT !.sellOrders = Tail(b.sellOrders)]
                       ELSE [b1 EXCEPT !.buyOrders = Append(b.buyOrders, order)]
                  ELSE IF b.buyOrders # <<>> /\ Head(b.buyOrders).price >= price
                       THEN [b1 EXCEPT !.buyOrders = Tail(b.buyOrders)]
                       ELSE [b1 EXCEPT !.sellOrders = Append(b.sellOrders, order)],
         ret |-> order.id]

\* Mutant of addOrder: the id is one more than the number of resting orders.
addOrder_countId(b, type, price, quantity) ==
    LET order == Order(Len(b.buyOrders) + Len(b.sellOrders) + 1, type, price, quantity)
        b1 == [b EXCEPT !.nextOrderId = b.nextOrderId + 1]
    IN  [book |-> IF type = "BUY"
                  THEN [b1 EXCEPT !.buyOrders = Append(b.buyOrders, order)]
                  ELSE [b1 EXCEPT !.sellOrders = Append(b.sellOrders, order)],
         ret |-> order.id]

\* int OrderBook::addOrder(type, price, quantity):
\* the order gets id nextOrderId++, is pushed to the back of its side.
addOrder(b, type, price, quantity) ==
    LET order == Order(b.nextOrderId, type, price, quantity)
        b1 == [b EXCEPT !.nextOrderId = b.nextOrderId + 1]
    IN  [book |-> IF type = "BUY"
                  THEN [b1 EXCEPT !.buyOrders = Append(b.buyOrders, order)]
                  ELSE [b1 EXCEPT !.sellOrders = Append(b.sellOrders, order)],
         ret |-> order.id]

\* Mutant of cancel: true is returned for an order that rests, which is left
\* where it is.
cancel_keep(orders, orderId) ==
    [orders |-> orders,
     ret |-> \E i \in DOMAIN orders : orders[i].id = orderId]

\* Mutant of cancel: every order up to that id is removed.
cancel_upTo(orders, orderId) ==
    [orders |-> SelectSeq(orders, LAMBDA o : o.id > orderId),
     ret |-> \E i \in DOMAIN orders : orders[i].id <= orderId]

\* The lambda `cancel` of cancelOrder: remove_if + erase of every order with
\* that id, keeping the others in their order; true iff one was removed.
cancel(orders, orderId) ==
    [orders |-> SelectSeq(orders, LAMBDA o : o.id # orderId),
     ret |-> \E i \in DOMAIN orders : orders[i].id = orderId]

\* bool OrderBook::cancelOrder(orderId): cancel(buyOrders) || cancel(sellOrders),
\* the sell side is only tried when the buy side held no such order.
cancelOrder(b, orderId) ==
    LET cb == cancel(b.buyOrders, orderId)
        cs == cancel(b.sellOrders, orderId)
    IN  IF cb.ret
        THEN [book |-> [b EXCEPT !.buyOrders = cb.orders], ret |-> TRUE]
        ELSE IF cs.ret
        THEN [book |-> [b EXCEPT !.sellOrders = cs.orders], ret |-> TRUE]
        ELSE [book |-> b, ret |-> FALSE]

\* Mutant of buyBefore: the buy side sorted like the sell side, lowest price first.
buyBefore_ascending(a, b) ==
    IF a.price # b.price THEN a.price < b.price ELSE a.id < b.id

\* The comparator of the buy side's std::sort: higher price first, then lower id.
buyBefore(a, b) ==
    IF ne(a.price, b.price) THEN gt(a.price, b.price) ELSE a.id < b.id

\* Mutant of sellBefore: the sell side sorted highest price first.
sellBefore_descending(a, b) ==
    IF a.price # b.price THEN a.price > b.price ELSE a.id < b.id

\* The comparator of the sell side's std::sort: lower price first, then lower id.
sellBefore(a, b) ==
    IF ne(a.price, b.price) THEN lt(a.price, b.price) ELSE a.id < b.id

before(type, a, b) == IF type = "BUY" THEN buyBefore(a, b) ELSE sellBefore(a, b)

\* ---- std::sort as the standard library of the build (libstdc++) runs it
\* A range of at most 16 elements is sorted by insertion.  A longer one is
\* first partitioned around the median of three elements until every part
\* has at most 16 (by heap sort once 2 * floor(log2 n) partitions were nested),
\* then one insertion pass goes over the whole range.  With ids distinct and
\* prices that are numbers the comparator is a strict total order and the
\* result is the one sorted permutation; with a price that is not a number it
\* is not, and the result is what these steps leave.

\* __unguarded_linear_insert: the element moves towards the front past the
\* elements the comparator puts it before.
RECURSIVE linearInsert(_, _, _)
linearInsert(o, s, type) ==
    IF s # <<>> /\ before(type, o, s[Len(s)])
    THEN Append(linearInsert(o, SubSeq(s, 1, Len(s) - 1), type), s[Len(s)])
    ELSE Append(s, o)

\* One step of __insertion_sort: an element that the comparator puts before
\* the first one goes to the front, any other is inserted linearly.
insertSorted(o, s, type) ==
    IF s = <<>> THEN <<o>>
    ELSE IF before(type, o, Head(s)) THEN <<o>> \o s
    ELSE linearInsert(o, s, type)

\* __insertion_sort(first, last)
RECURSIVE insertionSort(_, _)
insertionSort(s, type) ==
    IF s = <<>> THEN <<>>
    ELSE insertSorted(s[Len(s)], insertionSort(SubSeq(s, 1, Len(s) - 1), type), type)

\* __unguarded_insertion_sort: the elements of rest, one after the other,
\* inserted linearly into what stands before them.
RECURSIVE unguardedInsertionSort(_, _, _)
unguardedInsertionSort(s, rest, type) ==
    IF rest = <<>> THEN s
    ELSE unguardedInsertionSort(linearInsert(Head(rest), s, type), Tail(rest), type)

\* enum { _S_threshold = 16 }
threshold == 16

\* __final_insertion_sort(first, last)
finalInsertionSort(s, type) ==
    IF Len(s) > threshold
    THEN unguardedInsertionSort(insertionSort(SubSeq(s, 1, threshold), type),
                                SubSeq(s, threshold + 1, Len(s)), type)
    ELSE insertionSort(s, type)

\* The positions of a range count from 0, as first + i does.
swap(a, i, j) == [a EXCEPT ![i + 1] = a[j + 1], ![j + 1] = a[i + 1]]

\* __move_median_to_first(result, x, y, z)
moveMedianToFirst(a, result, x, y, z, type) ==
    IF before(type, a[x + 1], a[y + 1])
    THEN IF before(type, a[y + 1], a[z + 1]) THEN swap(a, result, y)
         ELSE IF before(type, a[x + 1], a[z + 1]) THEN swap(a, result, z)
         ELSE swap(a, result, x)
    ELSE IF before(type, a[x + 1], a[z + 1]) THEN swap(a, result, x)
         ELSE IF before(type, a[y + 1], a[z + 1]) THEN swap(a, result, z)
         ELSE swap(a, result, y)

\* while (comp(first, pivot)) ++first
RECURSIVE scanUp(_, _, _, _)
scanUp(a, i, pivot, type) ==
    IF before(type, a[i + 1], a[pivot + 1]) THEN scanUp(a, i + 1, pivot, type) ELSE i

\* while (comp(pivot, last)) --last
RECURSIVE scanDown(_, _, _, _)
scanDown(a, i, pivot, type) ==
    IF before(type, a[pivot + 1], a[i + 1]) THEN scanDown(a, i - 1, pivot, type) ELSE i

\* __unguarded_partition(first, last, pivot): the range after it, and the cut.
RECURSIVE unguardedPartition(_, _, _, _, _)
unguardedPartition(a, first, end, pivot, type) ==
    LET f == scanUp(a, first, pivot, type)
        l == scanDown(a, end - 1, pivot, type)
    IN  IF ~(f < l) THEN [a |-> a, cut |-> f]
        ELSE unguardedPartition(swap(a, f, l), f + 1, l, pivot, type)

\* __unguarded_partition_pivot(first, last)
unguardedPartitionPivot(a, first, end, type) ==
    LET mid == first + (end - first) \div 2
    IN  unguardedPartition(
            moveMedianToFirst(a, first, first + 1, mid, end - 1, type),
            first + 1, end, first, type)

\* __push_heap(first, holeIndex, topIndex, value)
RECURSIVE pushHeap(_, _, _, _, _, _)
pushHeap(a, first, holeIndex, topIndex, value, type) ==
    IF holeIndex > topIndex
       /\ before(type, a[first + (holeIndex - 1) \div 2 + 1], value)
    THEN pushHeap([a EXCEPT ![first + holeIndex + 1] =
                                 a[first + (holeIndex - 1) \div 2 + 1]],
                  first, (holeIndex - 1) \div 2, topIndex, value, type)
    ELSE [a EXCEPT ![first + holeIndex + 1] = value]

\* The loop of __adjust_heap: the hole moves down to the larger child.
RECURSIVE adjustLoop(_, _, _, _, _)
adjustLoop(a, first, holeIndex, len, type) ==
    IF holeIndex < (len - 1) \div 2
    THEN LET right == 2 * (holeIndex + 1)
             child == IF before(type, a[first + right + 1], a[first + right])
                      THEN right - 1 ELSE right
         IN  adjustLoop([a EXCEPT ![first + holeIndex + 1] = a[first + child + 1]],
                        first, child, len, type)
    ELSE [a |-> a, holeIndex |-> holeIndex]

\* __adjust_heap(first, holeIndex, len, value)
adjustHeap(a, first, holeIndex, len, value, type) ==
    LET s == adjustLoop(a, first, holeIndex, len, type)
    IN  IF len % 2 = 0 /\ s.holeIndex = (len - 2) \div 2
        THEN pushHeap([s.a EXCEPT ![first + s.holeIndex + 1] =
                                      s.a[first + 2 * (s.holeIndex + 1)]],
                      first, 2 * (s.holeIndex + 1) - 1, holeIndex, value, type)
        ELSE pushHeap(s.a, first, s.holeIndex, holeIndex, value, type)

\* The loop of __make_heap, from the last parent down to the root.
RECURSIVE makeHeapFrom(_, _, _, _, _)
makeHeapFrom(a, first, parent, len, type) ==
    LET b == adjustHeap(a, first, parent, len, a[first + parent + 1], type)
    IN  IF parent = 0 THEN b ELSE makeHeapFrom(b, first, parent - 1, len, type)

\* __make_heap(first, first + len)
makeHeap(a, first, len, type) ==
    IF len < 2 THEN a ELSE makeHeapFrom(a, first, (len - 2) \div 2, len, type)

\* __sort_heap(first, first + len): __pop_heap until one element is left.
RECURSIVE sortHeap(_, _, _, _)
sortHeap(a, first, len, type) ==
    IF len <= 1 THEN a
    ELSE sortHeap(adjustHeap([a EXCEPT ![first + len] = a[first + 1]],
                             first, 0, len - 1, a[first + len], type),
                  first, len - 1, type)

\* __partial_sort(first, last, last): __heap_select, which with middle = last
\* is __make_heap, then __sort_heap.
partialSort(a, first, end, type) ==
    sortHeap(makeHeap(a, first, end - first, type), first, end - first, type)

\* __introsort_loop(first, last, depth_limit)
RECURSIVE introsortLoop(_, _, _, _, _)
introsortLoop(a, first, end, depthLimit, type) ==
    IF end - first <= threshold THEN a
    ELSE IF depthLimit = 0 THEN partialSort(a, first, end, type)
    ELSE LET p == unguardedPartitionPivot(a, first, end, type)
         IN  introsortLoop(
                 introsortLoop(p.a, p.cut, end, depthLimit - 1, type),
                 first, p.cut, depthLimit - 1, type)

\* std::__lg(n): floor(log2 n)
RECURSIVE lg(_)
lg(n) == IF n <= 1 THEN 0 ELSE 1 + lg(n \div 2)

\* Mutant of stdSort: the side is left in the order it has.
stdSort_keep(s, type) == s

\* std::sort(first, last, comparator of `type`)
stdSort(s, type) ==
    IF s = <<>> THEN <<>>
    ELSE finalInsertionSort(introsortLoop(s, 0, Len(s), 2 * lg(Len(s)), type), type)

\* void OrderBook::sortOrders()
sortOrders(b) ==
    [b EXCEPT !.buyOrders = stdSort(b.buyOrders, "BUY"),
              !.sellOrders = stdSort(b.sellOrders, "SELL")]

\* Mutant of tradeQuantity: one unit per trade.
tradeQuantity_one(bestBuy, bestSell) == 1

\* Mutant of tradeQuantity: the buy order's quantity, whatever the sell holds.
tradeQuantity_buy(bestBuy, bestSell) == bestBuy.quantity

\* Mutant of tradeQuantity: the sell order's quantity, whatever the buy holds.
tradeQuantity_sell(bestBuy, bestSell) == bestSell.quantity

\* int tradeQuantity = std::min(bestBuy.quantity, bestSell.quantity)
tradeQuantity(bestBuy, bestSell) == Min(bestBuy.quantity, bestSell.quantity)

\* Mutant of tradePrice: the trade executes at the buy order's price.
tradePrice_buy(bestBuy, bestSell) == bestBuy.price

\* double tradePrice = bestSell.price
tradePrice(bestBuy, bestSell) == bestSell.price

\* Mutant of fill: the front order is popped also when part of it remains.
fill_popAlways(orders, q) == Tail(orders)

\* One side after a trade of q against its front order: the front order's
\* quantity is decremented in place and it is popped when it reached 0.
fill(orders, q) ==
    LET front == Head(orders)
    IN  IF front.quantity - q = 0
        THEN Tail(orders)
        ELSE <<[front EXCEPT !.quantity = front.quantity - q]>> \o Tail(orders)

\* Mutant of logTrade: the log keeps only the trade just made.
logTrade_only(log, trade) == <<trade>>

\* Mutant of logTrade: the trade is put at the front of the log.
logTrade_front(log, trade) == <<trade>> \o log

\* trades.emplace_back(bestBuy.id, bestSell.id, tradePrice, tradeQuantity)
logTrade(log, trade) == Append(log, trade)

\* Mutant of stops: the loop goes on whatever the two prices are.
stops_never(bestBuy, bestSell) == FALSE

\* Mutant of stops: the loop also stops at equal prices.
stops_atEqual(bestBuy, bestSell) == bestBuy.price <= bestSell.price

\* if (bestBuy.price < bestSell.price) break
stops(bestBuy, bestSell) == lt(bestBuy.price, bestSell.price)

\* The condition under which the while loop of matchOrders is left: a side is
\* empty, or the break.
loopEnds(b) ==
    \/ b.buyOrders = <<>>
    \/ b.sellOrders = <<>>
    \/ stops(Head(b.buyOrders), Head(b.sellOrders))

\* One iteration of the while loop of matchOrders past the break.
matchStep(b) ==
    LET bestBuy == Head(b.buyOrders)
        bestSell == Head(b.sellOrders)
        q == tradeQuantity(bestBuy, bestSell)
        p == tradePrice(bestBuy, bestSell)
    IN  [b EXCEPT
            !.trades = logTrade(b.trades, Trade(bestBuy.id, bestSell.id, p, q)),
            !.buyOrders = fill(b.buyOrders, q),
            !.sellOrders = fill(b.sellOrders, q)]

\* The while loop of matchOrders.
RECURSIVE matchLoop(_)
matchLoop(b) == IF loopEnds(b) THEN b ELSE matchLoop(matchStep(b))

\* void OrderBook::matchOrders(): sortOrders(), then the loop.
matchOrders(b) == matchLoop(sortOrders(b))

\* std::vector<Trade> OrderBook::getRecentTrades(): the trades from the cursor
\* to the end of the log, and the cursor moves to the end of the log.
getRecentTrades(b) ==
    [book |-> [b EXCEPT !.recentCursor = Len(b.trades)],
     ret |-> SubSeq(b.trades, b.recentCursor + 1, Len(b.trades))]

\* ------------------------------------------------------------ book-level runs
\* The book as its public interface is driven by a caller (the unit tests, the
\* CLI main): any sequence of addOrder, cancelOrder, matchOrders and
\* getRecentTrades calls.

SetBook(b) ==
    /\ buyOrders' = b.buyOrders
    /\ sellOrders' = b.sellOrders
    /\ nextOrderId' = b.nextOrderId
    /\ trades' = b.trades
    /\ recentCursor' = b.recentCursor

Sessions == 1..NumSessions

\* The sum of the quantities of a sequence of orders or of trades.
RECURSIVE SumQty(_)
SumQty(s) == IF s = <<>> THEN 0 ELSE Head(s).quantity + SumQty(Tail(s))

Init ==
    /\ buyOrders = <<>>
    /\ sellOrders = <<>>
    /\ nextOrderId = 1
    /\ trades = <<>>
    /\ recentCursor = 0
    /\ serverSessions = {}
    /\ publisherSessions = <<>>
    /\ reading = [s \in Sessions |-> FALSE]
    /\ dcTimer = {}
    /\ numAccepted = 0
    /\ runq = <<>>
    /\ io = "run"
    /\ shutdownRequested = FALSE
    /\ acceptorOpen = TRUE
    /\ clientAddress = [s \in Sessions |-> ""]
    /\ disconnected = [s \in Sessions |-> FALSE]
    /\ socketOpen = [s \in Sessions |-> FALSE]
    /\ writing = [s \in Sessions |-> FALSE]
    /\ writeQueue = [s \in Sessions |-> <<>>]
    /\ inflight = [s \in Sessions |-> 0]
    /\ peerClosed = {}
    /\ notified = [s \in Sessions |-> 0]
    /\ sendCount = [s \in Sessions |-> 0]
    /\ wire = [s \in Sessions |-> <<>>]
    /\ linesIn = 0
    /\ ids = <<>>
    /\ submitted = [t \in OrderTypes |-> 0]
    /\ cancelledQty = [t \in OrderTypes |-> 0]
    /\ cancelledIds = {}
    /\ drained = <<>>
    /\ matched = FALSE
    /\ last = [op |-> "init"]

\* The orders of the book with the given id (ids are unique: at most one).
RestingSeq(b, orderId) ==
    SelectSeq(b.buyOrders \o b.sellOrders, LAMBDA o : o.id = orderId)

\* History kept with an addOrder call.
NoteAdd(type, quantity, ret) ==
    /\ ids' = Append(ids, ret)
    /\ matched' = FALSE
    /\ submitted' = [submitted EXCEPT ![type] = @ + quantity]

\* History kept with a cancelOrder call on book b.
NoteCancel(b, orderId) ==
    /\ cancelledQty' =
           [t \in OrderTypes |->
               cancelledQty[t]
               + SumQty(SelectSeq(RestingSeq(b, orderId), LAMBDA o : o.type = t))]
    /\ cancelledIds' = cancelledIds \cup {o.id : o \in Range(RestingSeq(b, orderId))}

CallAddOrder(type, price, quantity) ==
    /\ Len(ids) < MaxAdds
    /\ \E r \in {addOrder(Book, type, price, quantity)} :
           /\ SetBook(r.book)
           /\ NoteAdd(type, quantity, r.ret)
           /\ last' = [op |-> "add", type |-> type, price |-> price,
                       quantity |-> quantity, ret |-> r.ret]
    /\ UNCHANGED <<cancelledQty, cancelledIds, drained>>
    /\ UNCHANGED sessionVars
    /\ UNCHANGED loopVars

CallCancelOrder(orderId) ==
    /\ \E r \in {cancelOrder(Book, orderId)} :
           /\ SetBook(r.book)
           /\ NoteCancel(Book, orderId)
           /\ last' = [op |-> "cancel", ret |-> r.ret]
    /\ UNCHANGED <<ids, submitted, drained, matched>>
    /\ UNCHANGED sessionVars
    /\ UNCHANGED loopVars

CallMatchOrders ==
    /\ SetBook(matchOrders(Book))
    /\ last' = [op |-> "match"]
    /\ matched' = TRUE
    /\ UNCHANGED <<ids, submitted, cancelledQty, cancelledIds, drained>>
    /\ UNCHANGED sessionVars
    /\ UNCHANGED loopVars

CallGetRecentTrades ==
    /\ \E r \in {getRecentTrades(Book)} :
           /\ SetBook(r.book)
           /\ drained' = drained \o r.ret
           /\ last' = [op |-> "recent", ret |-> r.ret]
    /\ UNCHANGED <<ids, submitted, cancelledQty, cancelledIds, matched>>
    /\ UNCHANGED sessionVars
    /\ UNCHANGED loopVars

\* The three operations that change the resting orders.
NextBook ==
    \/ \E type \in OrderTypes, price \in Prices, quantity \in Quantities :
           CallAddOrder(type, price, quantity)
    \/ \E orderId \in 1..nextOrderId : CallCancelOrder(orderId)
    \/ CallMatchOrders

SpecBook == Init /\ [][NextBook]_vars

\* The same with getRecentTrades called at any point.
NextRecent ==
    \/ \E type \in OrderTypes, price \in Prices, quantity \in Quantities :
           CallAddOrder(type, price, quantity)
    \/ \E orderId \in 1..nextOrderId : CallCancelOrder(orderId)
    \/ CallMatchOrders
    \/ CallGetRecentTrades

SpecRecent == Init /\ [][NextRecent]_vars

\* ------------------------------------------------------------ messages
\* A message is a sequence of blocks, each block one text fragment ending in
\* "\n\n"; a block keeps the numbers the code prints into it.

\* response << "CONFIRMED OrderID: " << orderId << "\n\n"
confirmedBlock(orderId) == [tag |-> "CONFIRMED OrderID: ", orderId |-> orderId]

\* The number of decimal digits of a whole number.
RECURSIVE digits(_)
digits(x) == IF x < 10 THEN 1 ELSE 1 + digits(x \div 10)

RECURSIVE pow10(_)
pow10(n) == IF n = 0 THEN 1 ELSE 10 * pow10(n - 1)

\* oss << price for a double: the stream prints six significant digits, so
\* the number a reader gets back is the price rounded to six digits, a tie
\* going to the even digit ("1.23457e+06" for 1234567); "nan" for the value
\* that is not a number.
printDouble(x) ==
    IF x = NaN THEN NaN
    ELSE IF x < 1000000 THEN x
    ELSE LET unit == pow10(digits(x) - 6)
             q == x \div unit
             r == x % unit
         IN  IF 2 * r > unit \/ (2 * r = unit /\ q % 2 = 1)
             THEN (q + 1) * unit
             ELSE q * unit

\* Trade::toString() + "\n\n"
tradeToString(t) ==
    [tag |-> "TRADE", buyOrderId |-> t.buyOrderId, sellOrderId |-> t.sellOrderId,
     price |-> printDouble(t.price), quantity |-> t.quantity]

\* Mutant of formatMarketTrade: the order ids are printed as well.
formatMarketTrade_ids(t) ==
    <<[tag |-> "MARKET TRADE", buyOrderId |-> t.buyOrderId,
       sellOrderId |-> t.sellOrderId, price |-> printDouble(t.price),
       quantity |-> t.quantity]>>

\* MarketPublisher::formatMarketTrade(trade)
formatMarketTrade(t) ==
    <<[tag |-> "MARKET TRADE", price |-> printDouble(t.price),
       quantity |-> t.quantity]>>

invalidInput == <<[tag |-> "INVALID INPUT"]>>
cancelledBlock(orderId) == [tag |-> "CANCELLED OrderID: ", orderId |-> orderId]
notFoundBlock(orderId) == [tag |-> "ORDER NOT FOUND: ", orderId |-> orderId]
disconnecting == <<[tag |-> "Disconnecting..."]>>
welcome == <<[tag |-> "WELCOME"]>>

\* One sendMessage(message) call on session `to`.
SendCall(to, message) == [to |-> to, message |-> message]

\* ------------------------------------------------------------ input lines
\* A line is its command word and its further tokens; a token is a number the
\* stream extraction / stod / stoi parses, or a word they reject.
Num(v) == [num |-> TRUE, val |-> v]
Word == [num |-> FALSE, val |-> 0]
Line(command, args) == [command |-> command, args |-> args]

OrderArgs ==
    {<<Num(p), Num(q)>> : p \in 0..MaxPrice, q \in 0..MaxQty}
    \cup {<<>>, <<Num(1)>>, <<Word, Num(1)>>, <<Num(1), Word>>}

CancelArgs == {<<Num(i)>> : i \in 0..(MaxAdds + 1)} \cup {<<>>, <<Word>>}

Lines ==
    {Line(c, a) : c \in {"BUY", "SELL"}, a \in OrderArgs}
    \cup {Line("CANCEL", a) : a \in CancelArgs}
    \cup {Line("DC", <<>>), Line("", <<>>), Line("HELLO", <<>>)}

\* ------------------------------------------------------------ MarketPublisher
\* A session object lives while something owns it: the server's set, or a
\* pending completion handler that captured `self` (of a read, of a write, of
\* the timer after DC).
Alive ==
    serverSessions \cup {s \in Sessions : reading[s]} \cup dcTimer
    \cup {s \in Sessions : inflight[s] > 0}

\* void MarketPublisher::cleanupExpiredSessions()
cleanupExpiredSessions(pubs, alive) == SelectSeq(pubs, LAMBDA w : w \in alive)

\* void MarketPublisher::registerSession(session)
registerSession(pubs, session) == Append(pubs, session)

\* void MarketPublisher::unregisterSession(session): nothing when the session
\* has expired, else the registry without the expired references and without
\* the session's.  Nothing in the repository calls it.
unregisterSession(pubs, alive, session) ==
    IF session \notin alive THEN pubs
    ELSE SelectSeq(pubs, LAMBDA w : w \in alive /\ w # session)

\* Mutant of getSessionCount: the registry is counted as it is.
getSessionCount_noCleanup(pubs, alive) == [sessions |-> pubs, ret |-> Len(pubs)]

\* size_t MarketPublisher::getSessionCount(): the registry after the cleanup
\* and its size.
getSessionCount(pubs, alive) ==
    [sessions |-> cleanupExpiredSessions(pubs, alive),
     ret |-> Len(cleanupExpiredSessions(pubs, alive))]

\* Mutant of broadcastTradeToMarket: the sender is not skipped.
broadcastTradeToMarket_all(pubs, alive, trade, sender) ==
    LET kept == cleanupExpiredSessions(pubs, alive)
        marketMessage == formatMarketTrade(trade)
    IN  [sessions |-> kept,
         calls |-> [i \in DOMAIN kept |-> SendCall(kept[i], marketMessage)]]

\* void MarketPublisher::broadcastTradeToMarket(trade, sender): the registry
\* after the cleanup, and the sendMessage calls made, in registry order.
broadcastTradeToMarket(pubs, alive, trade, sender) ==
    LET kept == cleanupExpiredSessions(pubs, alive)
        marketMessage == formatMarketTrade(trade)
        targets == SelectSeq(kept, LAMBDA w : w # sender)
    IN  [sessions |-> kept,
         calls |-> [i \in DOMAIN targets |-> SendCall(targets[i], marketMessage)]]

\* ------------------------------------------------------------ Session::doRead
\* Mutant of placeOrder: the response is built from the whole trade log.
placeOrder_history(b, type, price, quantity) ==
    LET a == addOrder(b, type, price, quantity)
        r == getRecentTrades(matchOrders(a.book))
    IN  [book |-> r.book, orderId |-> a.ret, newTrades |-> r.book.trades]

\* Mutant of placeOrder: the recent trades are not fetched.
placeOrder_noFetch(b, type, price, quantity) ==
    LET a == addOrder(b, type, price, quantity)
        m == matchOrders(a.book)
    IN  [book |-> m, orderId |-> a.ret, newTrades |-> <<>>]

\* addOrder, matchOrders, getRecentTrades as the BUY/SELL branch calls them.
placeOrder(b, type, price, quantity) ==
    LET a == addOrder(b, type, price, quantity)
        r == getRecentTrades(matchOrders(a.book))
    IN  [book |-> r.book, orderId |-> a.ret, newTrades |-> r.ret]

\* The loop over newTrades: each trade is appended to the response and
\* broadcast to the other sessions.
RECURSIVE tradeLoop(_, _, _, _, _, _)
tradeLoop(newTrades, response, pubs, alive, self, calls) ==
    IF newTrades = <<>>
    THEN [response |-> response, sessions |-> pubs, calls |-> calls]
    ELSE LET trade == Head(newTrades)
             bc == broadcastTradeToMarket(pubs, alive, trade, self)
         IN  tradeLoop(Tail(newTrades), Append(response, tradeToString(trade)),
                       bc.sessions, alive, self, calls \o bc.calls)

\* Mutant of Answer: a rejected line uses up an order id.
Answer_consumeId(b, pubs, self, response, kind) ==
    [book |-> IF kind = "invalid"
              THEN [b EXCEPT !.nextOrderId = @ + 1]
              ELSE b,
     sessions |-> pubs, calls |-> <<SendCall(self, response)>>,
     doRead |-> TRUE, timer |-> FALSE, kind |-> kind, orderId |-> 0,
     newTrades |-> <<>>]

\* The handler's outcome for a line whose answer is `response`, the book
\* untouched: sendMessage(response), then doRead().
Answer(b, pubs, self, response, kind) ==
    [book |-> b, sessions |-> pubs, calls |-> <<SendCall(self, response)>>,
     doRead |-> TRUE, timer |-> FALSE, kind |-> kind, orderId |-> 0,
     newTrades |-> <<>>]

\* The completion handler of async_read_until for one line, on success.
onLine(b, pubs, alive, self, line) ==
    IF line.command = ""
    THEN \* no command word: INVALID INPUT, and the handler returns
         [Answer(b, pubs, self, invalidInput, "invalid") EXCEPT !.doRead = FALSE]
    ELSE IF line.command = "DC"
    THEN [Answer(b, pubs, self, disconnecting, "dc")
             EXCEPT !.doRead = FALSE, !.timer = TRUE]
    ELSE IF line.command = "CANCEL"
    THEN IF line.args = <<>> \/ ~line.args[1].num \/ line.args[1].val <= 0
         THEN Answer(b, pubs, self, invalidInput, "invalid")
         ELSE LET orderId == line.args[1].val
                  c == cancelOrder(b, orderId)
              IN  IF c.ret
                  THEN [Answer(c.book, pubs, self, <<cancelledBlock(orderId)>>,
                               "cancelled") EXCEPT !.orderId = orderId]
                  ELSE [Answer(c.book, pubs, self, <<notFoundBlock(orderId)>>,
                               "notfound") EXCEPT !.orderId = orderId]
    ELSE IF line.command \in {"BUY", "SELL"}
    THEN IF Len(line.args) < 2
         THEN Answer(b, pubs, self, invalidInput, "invalid")
         ELSE IF ~line.args[1].num \/ ~line.args[2].num
         THEN \* std::invalid_argument of stod / stoi
              Answer(b, pubs, self, invalidInput, "invalid")
         ELSE LET price == line.args[1].val
                  quantity == line.args[2].val
              IN  IF le(price, 0) \/ quantity <= 0
                  THEN Answer(b, pubs, self, invalidInput, "invalid")
                  ELSE LET o == placeOrder(b, line.command, price, quantity)
                           l == tradeLoop(o.newTrades,
                                          <<confirmedBlock(o.orderId)>>,
                                          pubs, alive, self, <<>>)
                       IN  [book |-> o.book, sessions |-> l.sessions,
                            calls |-> Append(l.calls, SendCall(self, l.response)),
                            doRead |-> TRUE, timer |-> FALSE, kind |-> "order",
                            orderId |-> o.orderId, newTrades |-> o.newTrades]
    ELSE Answer(b, pubs, self, invalidInput, "invalid")

\* The order lines whose price token is any token std::stod parses, "nan"
\* included.
AnyPriceLines ==
    {Line(c, <<Num(p), Num(q)>>) :
        c \in {"BUY", "SELL"}, p \in Prices \cup {NaN}, q \in Quantities}

\* ------------------------------------------------------------ the event loop
\* main's io.run(): one thread takes the handlers that are ready to run from
\* one queue, oldest first.  The completion of an asynchronous operation
\* (accept, read, write, timer) is put at the back of the queue when the
\* operating system reports it, the task that sendMessage posts when it is
\* posted.

\* The remote addresses clients connect from (without the port).
Addresses == {"10.0.0.1", "10.0.0.2"}

\* The addresses the k-th client may have: which address the first one has
\* makes no difference, the later ones have the same or another.
PeerAddresses(k) == IF k = 1 THEN {"10.0.0.1"} ELSE Addresses

\* The lines clients send in runs of the event loop.
ServerLines ==
    {Line(c, <<Num(1), Num(1)>>) : c \in {"BUY", "SELL"}}
    \cup {Line("DC", <<>>), Line("", <<>>)}

\* "SERVER SHUTDOWN: Server is shutting down. Disconnecting...\n\n"
shutdownNotice == <<[tag |-> "SERVER SHUTDOWN"]>>

\* The handlers in the queue.
\* What a completion brings with it (the peer's address, the line read, the
\* error code of a write) is drawn when its handler runs.
AcceptDone == [h |-> "accept", session |-> 0, aborted |-> FALSE]
\* The completion of an async_accept that acceptor_.close() aborted.
AcceptAborted == [h |-> "accept", session |-> 0, aborted |-> TRUE]
ReadDone(s) == [h |-> "read", session |-> s]
ReadFailed(s) == [h |-> "readerr", session |-> s]
WriteDone(s) == [h |-> "wrote", session |-> s]
TimerDone(s) == [h |-> "timer", session |-> s]
\* The lambda sendMessage posts: it holds `this` and the message.  n counts
\* the sendMessage calls on the session; from is the session whose handler
\* made the call (0: the server).
EnqueueTask(s, n, message, from) ==
    [h |-> "enqueue", session |-> s, n |-> n, message |-> message, from |-> from]

\* Mutant of ready: a completion handler jumps the queue.
ready_front(q, h) == <<h>> \o q

\* The completion handler h becomes ready to run: it goes to the back of the
\* queue.
ready(q, h) == Append(q, h)

\* The completion handlers that are ready to run.
Completions == Cardinality({i \in DOMAIN runq : runq[i].h # "enqueue"})

\* A handler of kind h of session s is in the queue.
Queued(h, s) == \E i \in DOMAIN runq : runq[i].h = h /\ runq[i].session = s

\* The tasks the sendMessage calls of one handler post, in call order.
PostCalls(calls, from) ==
    [i \in DOMAIN calls |->
        EnqueueTask(calls[i].to,
                    sendCount[calls[i].to]
                        + Cardinality({j \in 1..i : calls[j].to = calls[i].to}),
                    calls[i].message, from)]

\* sendCount after these calls.
CountCalls(calls) ==
    [s \in Sessions |->
        sendCount[s] + Cardinality({j \in DOMAIN calls : calls[j].to = s})]

\* What doWrite leaves when it returns without a write.
NoWrite(queue) == [writing |-> FALSE, queue |-> queue, start |-> <<>>]

\* boost::asio::async_write(socket_, boost::asio::buffer(msg), handler): the
\* write started for the queue entry.  The buffer refers to the bytes of msg,
\* a local string of doWrite, and does not own them.
asyncWrite(entry) == <<[n |-> entry.n, message |-> entry.message]>>

\* Mutant of doWrite: writing_ is not set when a write is started.
doWrite_noFlag(isDisconnected, isOpen, queue) ==
    IF isDisconnected \/ ~isOpen THEN NoWrite(queue)
    ELSE IF queue = <<>> THEN NoWrite(queue)
    ELSE [writing |-> FALSE, queue |-> Tail(queue),
          start |-> asyncWrite(Head(queue))]

\* Mutant of doWrite: disconnected_ is not looked at.
doWrite_noCheck(isDisconnected, isOpen, queue) ==
    IF ~isOpen THEN NoWrite(queue)
    ELSE IF queue = <<>> THEN NoWrite(queue)
    ELSE [writing |-> TRUE, queue |-> Tail(queue),
          start |-> asyncWrite(Head(queue))]

\* void Session::doWrite(""): what it leaves of writing_ and writeQueue_, and
\* the write it started, if any.
doWrite(isDisconnected, isOpen, queue) ==
    IF isDisconnected \/ ~isOpen THEN NoWrite(queue)
    ELSE IF queue = <<>> THEN NoWrite(queue)
    ELSE [writing |-> TRUE, queue |-> Tail(queue),
          start |-> asyncWrite(Head(queue))]

\* The numbers of the messages of the writes started.
Given(start) == [i \in DOMAIN start |-> start[i].n]

\* What the transport does with the buffer of a write in flight.  msg is
\* destroyed when doWrite returns.  When the socket took the bytes within the
\* async_write call, the message was written.  When it did not, the transport
\* reads the buffer after doWrite has returned, from freed memory, which is
\* undefined: the bytes of the message may still be there, other bytes are
\* written, or the process ends.
transportReads == {"message", "other", "ends"}

\* void EngineServer::handleClientDisconnect(clientAddress): find_if takes the
\* first session of the set with that address, and the set is ordered by the
\* addresses of the Session objects, which the allocator chose: any session
\* with that address may be the first.  The possible sets afterwards.
handleClientDisconnect(sessions, address) ==
    IF \E v \in sessions : clientAddress[v] = address
    THEN {sessions \ {v} : v \in {x \in sessions : clientAddress[x] = address}}
    ELSE {sessions}

\* Mutant of handleDisconnect: disconnected_ is not looked at.
handleDisconnect_noGuard(s) ==
    {[disconnected |-> [disconnected EXCEPT ![s] = TRUE],
      sessions |-> after,
      notified |-> [notified EXCEPT ![s] = @ + 1]] :
         after \in handleClientDisconnect(serverSessions, clientAddress[s])}

\* void Session::handleDisconnect(): the possible outcomes.
handleDisconnect(s) ==
    IF disconnected[s]
    THEN {[disconnected |-> disconnected, sessions |-> serverSessions,
           notified |-> notified]}
    ELSE {[disconnected |-> [disconnected EXCEPT ![s] = TRUE],
           sessions |-> after,
           notified |-> [notified EXCEPT ![s] = @ + 1]] :
              after \in handleClientDisconnect(serverSessions, clientAddress[s])}

\* Session::~Session(): a session that nothing owns any more is destroyed,
\* and its destructor closes the socket.  The sockets open once the sessions
\* of `alive` are the only ones left.
closeDestroyed(open, alive) == [s \in Sessions |-> open[s] /\ s \in alive]

bookHist == <<ids, submitted, cancelledQty, cancelledIds, drained, matched>>

\* The record of a handler that ran: its kind, and whether the session's
\* disconnect had been handled before it ran.
Ran(h, late) == [op |-> "handler", h |-> h, late |-> late]

\* ---- what the clients and the operating system do
\* A client connects, or the accept fails: the outstanding async_accept
\* completes.
Connect ==
    /\ io = "run"
    /\ Completions < MaxReady
    /\ acceptorOpen
    /\ ~Queued("accept", 0)
    /\ numAccepted < NumSessions
    /\ runq' = ready(runq, AcceptDone)
    /\ last' = [op |-> "event"]
    /\ UNCHANGED <<io, shutdownRequested, acceptorOpen, clientAddress,
                   disconnected, socketOpen, writing, writeQueue, inflight,
                   peerClosed, notified, sendCount, wire, linesIn>>
    /\ UNCHANGED <<bookVars, sessionVars, bookHist>>

\* A line arrives on session s: its outstanding read completes.  Fewer than
\* `most` lines arrived before.
LineArrivesUpTo(s, most) ==
    /\ io = "run"
    /\ Completions < MaxReady
    /\ reading[s]
    /\ ~Queued("read", s) /\ ~Queued("readerr", s)
    /\ s \notin peerClosed
    /\ linesIn < most
    /\ runq' = ready(runq, ReadDone(s))
    /\ linesIn' = linesIn + 1
    /\ last' = [op |-> "event"]
    /\ UNCHANGED <<io, shutdownRequested, acceptorOpen, clientAddress,
                   disconnected, socketOpen, writing, writeQueue, inflight,
                   peerClosed, notified, sendCount, wire>>
    /\ UNCHANGED <<bookVars, sessionVars, bookHist>>

LineArrives(s) == LineArrivesUpTo(s, MaxLines)

\* The client of session s closes the connection, or the connection breaks:
\* the outstanding read of session s completes with end of file or an error.
ReadFails(s) ==
    /\ io = "run"
    /\ Completions < MaxReady
    /\ reading[s]
    /\ ~Queued("read", s) /\ ~Queued("readerr", s)
    /\ peerClosed' = peerClosed \cup {s}
    /\ runq' = ready(runq, ReadFailed(s))
    /\ last' = [op |-> "event"]
    /\ UNCHANGED <<io, shutdownRequested, acceptorOpen, clientAddress,
                   disconnected, socketOpen, writing, writeQueue, inflight,
                   notified, sendCount, wire, linesIn>>
    /\ UNCHANGED <<bookVars, sessionVars, bookHist>>

\* The transport performs the outstanding write of session s, reading the
\* buffer it was given, and the write completes; or the process ends in the
\* read of the buffer.
WriteCompletes(s) ==
    /\ io = "run"
    /\ Completions < MaxReady
    /\ inflight[s] > 0
    /\ ~Queued("wrote", s)
    /\ \E bytes \in transportReads :
           /\ io' = IF bytes = "ends" THEN "crashed" ELSE io
           /\ runq' = IF bytes = "ends" THEN runq ELSE ready(runq, WriteDone(s))
           /\ last' = [op |-> "transport", session |-> s, bytes |-> bytes]
    /\ UNCHANGED <<shutdownRequested, acceptorOpen, clientAddress,
                   disconnected, socketOpen, writing, writeQueue, inflight,
                   peerClosed, notified, sendCount, wire, linesIn>>
    /\ UNCHANGED <<bookVars, sessionVars, bookHist>>

\* The 100 ms timer of session s expires.
TimerExpires(s) ==
    /\ io = "run"
    /\ Completions < MaxReady
    /\ s \in dcTimer
    /\ ~Queued("timer", s)
    /\ runq' = ready(runq, TimerDone(s))
    /\ last' = [op |-> "event"]
    /\ UNCHANGED <<io, shutdownRequested, acceptorOpen, clientAddress,
                   disconnected, socketOpen, writing, writeQueue, inflight,
                   peerClosed, notified, sendCount, wire, linesIn>>
    /\ UNCHANGED <<bookVars, sessionVars, bookHist>>

\* ---- the handlers, each run when it is the oldest in the queue
\* The handler of async_accept (EngineServer::doAccept), with Session's
\* constructor and Session::start.  The constructor asks the socket for its
\* remote endpoint; when the client has reset the connection in the meantime
\* that call throws, no session is made, and the exception leaves io.run().
\* When the accept completed with an error the handler reports it and starts
\* the next accept.  Once shutdown was requested the handler does nothing,
\* whatever the completion brought.
RunAccept ==
    /\ io = "run"
    /\ runq # <<>>
    /\ Head(runq).h = "accept"
    /\ IF shutdownRequested
       THEN /\ runq' = Tail(runq)
            /\ last' = [op |-> "handler", h |-> "accept", late |-> FALSE,
                        aborted |-> Head(runq).aborted]
            /\ UNCHANGED <<clientAddress, socketOpen, sendCount, io>>
            /\ UNCHANGED sessionVars
       ELSE \E completion \in {"error", "reset", "connection"} :
            IF completion = "error"
            THEN /\ runq' = Tail(runq)
                 /\ last' = [op |-> "accept error"]
                 /\ UNCHANGED <<clientAddress, socketOpen, sendCount, io>>
                 /\ UNCHANGED sessionVars
            ELSE IF completion = "reset"
            THEN /\ runq' = Tail(runq)
                 /\ io' = "threw"
                 /\ last' = [op |-> "accept threw"]
                 /\ UNCHANGED <<clientAddress, socketOpen, sendCount>>
                 /\ UNCHANGED sessionVars
            ELSE LET s == numAccepted + 1
                     calls == <<SendCall(s, welcome)>>
                 IN  /\ numAccepted' = s
                     /\ \E a \in PeerAddresses(s) :
                            clientAddress' = [clientAddress EXCEPT ![s] = a]
                     /\ socketOpen' = [socketOpen EXCEPT ![s] = TRUE]
                     /\ serverSessions' = serverSessions \cup {s}
                     /\ \E c \in {getSessionCount(registerSession(publisherSessions, s),
                                                  Alive \cup {s})} :
                            /\ publisherSessions' = c.sessions
                            /\ last' = [op |-> "accept", session |-> s,
                                        calls |-> calls, totalClients |-> c.ret]
                     /\ reading' = [reading EXCEPT ![s] = TRUE]
                     /\ runq' = Tail(runq) \o PostCalls(calls, s)
                     /\ sendCount' = CountCalls(calls)
                     /\ UNCHANGED <<dcTimer, io>>
    /\ UNCHANGED <<shutdownRequested, acceptorOpen, disconnected, writing,
                   writeQueue, inflight, peerClosed, notified, wire, linesIn>>
    /\ UNCHANGED <<bookVars, bookHist>>

\* The handler of async_read_until (Session::doRead) for a line read; fewer
\* than `most` orders were placed before.
RunReadOf(lines, most) ==
    /\ io = "run"
    /\ runq # <<>>
    /\ Head(runq).h = "read"
    /\ \E line \in lines :
       LET s == Head(runq).session
       IN  IF disconnected[s]
           THEN \* handleDisconnect(), which returns at once
                /\ reading' = [reading EXCEPT ![s] = FALSE]
                /\ runq' = Tail(runq)
                /\ last' = Ran("read", disconnected[s])
                /\ UNCHANGED <<publisherSessions, dcTimer, sendCount>>
                /\ UNCHANGED <<bookVars, bookHist>>
           ELSE \E h \in {onLine(Book, publisherSessions, Alive, s, line)} :
                /\ h.kind = "order" => Len(ids) < most
                /\ SetBook(h.book)
                /\ publisherSessions' = h.sessions
                /\ reading' = [reading EXCEPT
                                  ![s] = h.doRead /\ ~disconnected[s] /\ socketOpen[s]]
                /\ dcTimer' = IF h.timer THEN dcTimer \cup {s} ELSE dcTimer
                /\ runq' = Tail(runq) \o PostCalls(h.calls, s)
                /\ sendCount' = CountCalls(h.calls)
                /\ IF h.kind = "order"
                   THEN /\ ids' = Append(ids, h.orderId)
                        /\ submitted' = [submitted EXCEPT
                                             ![line.command] = @ + line.args[2].val]
                        /\ matched' = TRUE
                   ELSE UNCHANGED <<ids, submitted, matched>>
                /\ IF h.kind \in {"cancelled", "notfound"}
                   THEN NoteCancel(Book, h.orderId)
                   ELSE UNCHANGED <<cancelledQty, cancelledIds>>
                /\ drained' = drained \o h.newTrades
                /\ last' = [op |-> "line", session |-> s, kind |-> h.kind,
                            order |-> IF h.kind = "order"
                                      THEN <<Order(h.orderId, line.command,
                                                   line.args[1].val, line.args[2].val)>>
                                      ELSE <<>>,
                            orderId |-> h.orderId, from |-> Len(trades),
                            calls |-> h.calls]
    /\ UNCHANGED <<serverSessions, numAccepted>>
    /\ UNCHANGED <<io, shutdownRequested, acceptorOpen, clientAddress,
                   disconnected, writing, writeQueue, inflight,
                   peerClosed, notified, wire, linesIn>>
    /\ socketOpen' = closeDestroyed(socketOpen, Alive')

RunRead == RunReadOf(ServerLines, MaxAdds)

\* The handler of async_read_until for a read that failed.
RunReadError ==
    /\ io = "run"
    /\ runq # <<>>
    /\ Head(runq).h = "readerr"
    /\ LET s == Head(runq).session
       IN  /\ \E d \in handleDisconnect(s) :
                  /\ disconnected' = d.disconnected
                  /\ serverSessions' = d.sessions
                  /\ notified' = d.notified
           /\ reading' = [reading EXCEPT ![s] = FALSE]
           /\ last' = Ran("readerr", disconnected[s])
    /\ runq' = Tail(runq)
    /\ UNCHANGED <<publisherSessions, dcTimer, numAccepted>>
    /\ UNCHANGED <<io, shutdownRequested, acceptorOpen, clientAddress,
                   writing, writeQueue, inflight, peerClosed,
                   sendCount, wire, linesIn>>
    /\ UNCHANGED <<bookVars, bookHist>>
    /\ socketOpen' = closeDestroyed(socketOpen, Alive')

\* The task sendMessage posted.  It holds the session by a raw pointer: when
\* the session was destroyed in the meantime the task works on freed memory,
\* which is undefined: the run may go on as if nothing happened, or end.
RunEnqueue ==
    /\ io = "run"
    /\ runq # <<>>
    /\ Head(runq).h = "enqueue"
    /\ LET s == Head(runq).session
           entry == [n |-> Head(runq).n, message |-> Head(runq).message]
       IN  IF s \notin Alive
           THEN /\ \E outcome \in {"run", "crashed"} : io' = outcome
                /\ last' = Ran("enqueue", disconnected[s])
                /\ UNCHANGED <<writing, writeQueue, inflight, wire>>
           ELSE /\ \E w \in {IF writing[s]
                             THEN [writing |-> TRUE,
                                   queue |-> Append(writeQueue[s], entry),
                                   start |-> <<>>]
                             ELSE doWrite(disconnected[s], socketOpen[s],
                                          Append(writeQueue[s], entry))} :
                       /\ writing' = [writing EXCEPT ![s] = w.writing]
                       /\ writeQueue' = [writeQueue EXCEPT ![s] = w.queue]
                       /\ inflight' = [inflight EXCEPT ![s] = @ + Len(w.start)]
                       /\ wire' = [wire EXCEPT ![s] = @ \o Given(w.start)]
                /\ last' = Ran("enqueue", disconnected[s])
                /\ UNCHANGED io
    /\ runq' = Tail(runq)
    /\ UNCHANGED <<shutdownRequested, acceptorOpen, clientAddress, disconnected,
                   socketOpen, peerClosed, notified, sendCount, linesIn>>
    /\ UNCHANGED <<bookVars, sessionVars, bookHist>>

\* The handler of async_write (Session::doWrite), for a write that succeeded
\* or one that failed (the connection broke, or the socket was closed under
\* the write).
RunWrote ==
    /\ io = "run"
    /\ runq # <<>>
    /\ Head(runq).h = "wrote"
    /\ \E ok \in BOOLEAN :
       LET s == Head(runq).session
       IN  IF ok /\ ~disconnected[s]
           THEN \E w \in {doWrite(disconnected[s], socketOpen[s], writeQueue[s])} :
                /\ writing' = [writing EXCEPT ![s] = w.writing]
                /\ writeQueue' = [writeQueue EXCEPT ![s] = w.queue]
                /\ inflight' = [inflight EXCEPT ![s] = @ - 1 + Len(w.start)]
                /\ wire' = [wire EXCEPT ![s] = @ \o Given(w.start)]
                /\ last' = Ran("wrote", disconnected[s])
                /\ UNCHANGED <<disconnected, serverSessions, notified,
                               peerClosed, io>>
           ELSE /\ writing' = [writing EXCEPT ![s] = FALSE]
                /\ \E d \in handleDisconnect(s) :
                       /\ disconnected' = d.disconnected
                       /\ serverSessions' = d.sessions
                       /\ notified' = d.notified
                /\ inflight' = [inflight EXCEPT ![s] = @ - 1]
                /\ last' = Ran("wrote", disconnected[s])
                \* a write on an open socket fails when the connection broke
                /\ peerClosed' = IF ok \/ ~socketOpen[s]
                                 THEN peerClosed ELSE peerClosed \cup {s}
                /\ UNCHANGED <<writeQueue, wire, io>>
    /\ runq' = Tail(runq)
    /\ UNCHANGED <<publisherSessions, reading, dcTimer, numAccepted>>
    /\ UNCHANGED <<shutdownRequested, acceptorOpen, clientAddress,
                   sendCount, linesIn>>
    /\ UNCHANGED <<bookVars, bookHist>>
    /\ socketOpen' = closeDestroyed(socketOpen, Alive')

\* The handler of the timer set after DC: socket_.close(), which cancels the
\* operations outstanding on the socket, then handleDisconnect().
RunTimer ==
    /\ io = "run"
    /\ runq # <<>>
    /\ Head(runq).h = "timer"
    /\ LET s == Head(runq).session
           cancelled ==
               (IF inflight[s] > 0 /\ ~Queued("wrote", s)
                THEN <<WriteDone(s)>> ELSE <<>>)
               \o (IF reading[s] /\ ~Queued("read", s) /\ ~Queued("readerr", s)
                   THEN <<ReadFailed(s)>> ELSE <<>>)
       IN  /\ runq' = Tail(runq) \o cancelled
           /\ \E d \in handleDisconnect(s) :
                  /\ disconnected' = d.disconnected
                  /\ serverSessions' = d.sessions
                  /\ notified' = d.notified
           /\ dcTimer' = dcTimer \ {s}
           /\ last' = Ran("timer", disconnected[s])
    /\ UNCHANGED <<publisherSessions, reading, numAccepted>>
    /\ UNCHANGED <<io, shutdownRequested, acceptorOpen, clientAddress, writing,
                   writeQueue, inflight, peerClosed, sendCount, wire, linesIn>>
    /\ UNCHANGED <<bookVars, bookHist>>
    /\ socketOpen' = closeDestroyed([socketOpen EXCEPT ![Head(runq).session] = FALSE],
                                    Alive')

\* The orders in which std::set<std::shared_ptr<Session>> can hold the
\* sessions of S: the set is ordered by the addresses of the Session objects,
\* which the allocator chose.
SetOrders(S) ==
    {q \in [1..Cardinality(S) -> S] : \A i, j \in DOMAIN q : i # j => q[i] # q[j]}

\* void EngineServer::broadcastToAllClients(message): the sendMessage calls,
\* for the sessions as the set holds them.
broadcastToAllClients(sessions, message) ==
    [i \in DOMAIN sessions |-> SendCall(sessions[i], message)]

\* void EngineServer::broadcastToOthers(message, excludeSession): the
\* sendMessage calls, for the sessions as the set holds them.  The session
\* publishes its trades through MarketPublisher and does not call it.
broadcastToOthers(sessions, message, excludeSession) ==
    LET others == SelectSeq(sessions, LAMBDA x : x # excludeSession)
    IN  [i \in DOMAIN others |-> SendCall(others[i], message)]

\* acceptor_.close(): an async_accept that is outstanding completes with
\* operation_aborted, and its handler becomes ready to run.
acceptorClose(accepting) == IF accepting THEN <<AcceptAborted>> ELSE <<>>

\* An async_accept is outstanding: the acceptor is open, the loop runs, and
\* the handler of the last accept has run and started the next.
Accepting == acceptorOpen /\ io = "run" /\ ~Queued("accept", 0)

\* Mutant of shutdown: the session set is not cleared.
shutdown_keepSessions(sessions, accepting) ==
    [shutdownRequested |-> TRUE,
     calls |-> broadcastToAllClients(sessions, shutdownNotice),
     sessions |-> Range(sessions),
     aborted |-> acceptorClose(accepting),
     acceptorOpen |-> FALSE]

\* void EngineServer::shutdown(), for the sessions as the set holds them and
\* with an accept outstanding or not: the flag is set, the notice broadcast,
\* the session set cleared, the acceptor closed.
shutdown(sessions, accepting) ==
    [shutdownRequested |-> TRUE,
     calls |-> broadcastToAllClients(sessions, shutdownNotice),
     sessions |-> {},
     aborted |-> acceptorClose(accepting),
     acceptorOpen |-> FALSE]

\* main's handler of SIGINT / SIGTERM or of the line "shutdown" on stdin:
\* server.shutdown(), then io.stop().
Shutdown ==
    /\ io = "run"
    /\ \E d \in {shutdown(order, Accepting) : order \in SetOrders(serverSessions)} :
           /\ shutdownRequested' = d.shutdownRequested
           /\ runq' = runq \o PostCalls(d.calls, 0) \o d.aborted
           /\ sendCount' = CountCalls(d.calls)
           /\ serverSessions' = d.sessions
           /\ acceptorOpen' = d.acceptorOpen
           /\ last' = [op |-> "shutdown", calls |-> d.calls,
                       aborted |-> d.aborted # <<>>]
    /\ io' = "stopped"
    /\ UNCHANGED <<publisherSessions, reading, dcTimer, numAccepted>>
    /\ UNCHANGED <<clientAddress, disconnected, writing, writeQueue,
                   inflight, peerClosed, notified, wire, linesIn>>
    /\ UNCHANGED <<bookVars, bookHist>>
    /\ socketOpen' = closeDestroyed(socketOpen, Alive')

\* A call of EngineServer::shutdown() by itself, from a handler on the thread
\* of the event loop: the loop goes on running.  main never makes it: both of
\* its handlers stop the loop in the same breath (Shutdown).
CallShutdown ==
    /\ io = "run"
    /\ ~shutdownRequested
    /\ \E d \in {shutdown(order, Accepting) : order \in SetOrders(serverSessions)} :
           /\ shutdownRequested' = d.shutdownRequested
           /\ runq' = runq \o PostCalls(d.calls, 0) \o d.aborted
           /\ sendCount' = CountCalls(d.calls)
           /\ serverSessions' = d.sessions
           /\ acceptorOpen' = d.acceptorOpen
           /\ last' = [op |-> "call", name |-> "shutdown", calls |-> d.calls,
                       aborted |-> d.aborted # <<>>]
    /\ UNCHANGED <<publisherSessions, reading, dcTimer, numAccepted>>
    /\ UNCHANGED <<io, clientAddress, disconnected, writing, writeQueue,
                   inflight, peerClosed, notified, wire, linesIn>>
    /\ UNCHANGED <<bookVars, bookHist>>
    /\ socketOpen' = closeDestroyed(socketOpen, Alive')

\* io.run() has returned, or an exception has left it and main has caught it,
\* and main returns: the server is destroyed with its session set and its
\* acceptor, the io_context with the handlers it still holds, none of them
\* run, and with them the sessions they own.
Exit ==
    /\ io \in {"stopped", "threw"}
    /\ io' = "exited"
    /\ runq' = <<>>
    /\ reading' = [s \in Sessions |-> FALSE]
    /\ inflight' = [s \in Sessions |-> 0]
    /\ dcTimer' = {}
    /\ last' = [op |-> "exit"]
    /\ serverSessions' = {}
    /\ acceptorOpen' = FALSE
    /\ UNCHANGED <<publisherSessions, numAccepted>>
    /\ UNCHANGED <<shutdownRequested, clientAddress, disconnected,
                   writing, writeQueue, peerClosed, notified,
                   sendCount, wire, linesIn>>
    /\ UNCHANGED <<bookVars, bookHist>>
    /\ socketOpen' = closeDestroyed(socketOpen, Alive')

NextServer ==
    \/ Connect
    \/ \E s \in Sessions : LineArrives(s)
    \/ \E s \in Sessions : ReadFails(s)
    \/ \E s \in Sessions : WriteCompletes(s)
    \/ \E s \in Sessions : TimerExpires(s)
    \/ RunAccept
    \/ RunRead
    \/ RunReadError
    \/ RunEnqueue
    \/ RunWrote
    \/ RunTimer
    \/ Shutdown
    \/ Exit

SpecServer == Init /\ [][NextServer]_vars

\* ---- runs in which the clients wait for their answers
\* No handler is ready to run: the loop waits for the next completion.
Idle == runq = <<>>

\* The loop is idle and no write is outstanding: every answer was written.
Settled == Idle /\ \A s \in Sessions : inflight[s] = 0

\* The runs of the event loop over every kind of line, in which a client
\* connects, sends its next line or goes away only when every answer was
\* written, and a write completes only when the loop is idle.
Next ==
    \/ Settled /\ Connect
    \/ \E s \in Sessions : Settled /\ LineArrives(s)
    \/ \E s \in Sessions : Settled /\ ReadFails(s)
    \/ \E s \in Sessions : Idle /\ WriteCompletes(s)
    \/ \E s \in Sessions : Settled /\ TimerExpires(s)
    \/ RunAccept
    \/ RunReadOf(Lines, MaxAdds)
    \/ RunReadError
    \/ RunEnqueue
    \/ RunWrote
    \/ RunTimer
    \/ Shutdown
    \/ Exit

Spec == Init /\ [][Next]_vars

\* The same for one client that sends order lines of any price, up to
\* MaxOrders of them; with no DC line no timer is ever set.
NextAnyPrice ==
    \/ Settled /\ numAccepted = 0 /\ Connect
    \/ \E s \in Sessions : Settled /\ LineArrivesUpTo(s, MaxOrders)
    \/ \E s \in Sessions : Settled /\ ReadFails(s)
    \/ \E s \in Sessions : Idle /\ WriteCompletes(s)
    \/ RunAccept
    \/ RunReadOf(AnyPriceLines, MaxOrders)
    \/ RunReadError
    \/ RunEnqueue
    \/ RunWrote
    \/ Shutdown
    \/ Exit

SpecAnyPrice == Init /\ [][NextAnyPrice]_vars

\* ---- the public member functions that the server never calls
\* MarketPublisher::unregisterSession and EngineServer::broadcastToOthers are
\* public, and no handler of the server calls them.  They are called here on
\* the thread of the event loop, between two handlers, and so is
\* EngineServer::shutdown() by itself.
MaxSends == 3

\* The message of a broadcastToOthers call.
text == <<[tag |-> "TEXT"]>>

\* A call of MarketPublisher::unregisterSession(session) with session s.
CallUnregisterSession(s) ==
    /\ io = "run"
    /\ s \in 1..numAccepted
    /\ publisherSessions' = unregisterSession(publisherSessions, Alive, s)
    /\ last' = [op |-> "call", name |-> "unregisterSession", session |-> s]
    /\ UNCHANGED <<serverSessions, reading, dcTimer, numAccepted>>
    /\ UNCHANGED loopVars
    /\ UNCHANGED <<bookVars, bookHist>>

\* A call of EngineServer::broadcastToOthers(text, excludeSession), with a
\* session or no session (0) to exclude.
CallBroadcastToOthers(excludeSession) ==
    /\ io = "run"
    /\ \A s \in Sessions : sendCount[s] < MaxSends
    /\ \E calls \in {broadcastToOthers(order, text, excludeSession) :
                        order \in SetOrders(serverSessions)} :
           /\ runq' = runq \o PostCalls(calls, 0)
           /\ sendCount' = CountCalls(calls)
           /\ last' = [op |-> "call", name |-> "broadcastToOthers",
                       calls |-> calls]
    /\ UNCHANGED <<io, shutdownRequested, acceptorOpen, clientAddress,
                   disconnected, socketOpen, writing, writeQueue, inflight,
                   peerClosed, notified, wire, linesIn>>
    /\ UNCHANGED <<bookVars, sessionVars, bookHist>>

\* The runs of the event loop without lines from the clients, with these
\* calls made at any moment between two handlers.
NextPublic ==
    \/ Settled /\ Connect
    \/ \E s \in Sessions : Settled /\ ReadFails(s)
    \/ \E s \in Sessions : Idle /\ WriteCompletes(s)
    \/ RunAccept
    \/ RunReadError
    \/ RunEnqueue
    \/ RunWrote
    \/ \E s \in Sessions : CallUnregisterSession(s)
    \/ \E x \in 0..NumSessions : CallBroadcastToOthers(x)
    \/ CallShutdown
    \/ Shutdown
    \/ Exit

SpecPublic == Init /\ [][NextPublic]_vars

\* The runs of the event loop in which the clients wait for their answers,
\* over the lines of ServerLines, and in which EngineServer::shutdown() may be
\* called at any moment while the loop goes on running: the handlers that are
\* ready at the request or become ready after it, the aborted accept among
\* them, run.
NextShutdown ==
    \/ Settled /\ Connect
    \/ \E s \in Sessions : Settled /\ LineArrives(s)
    \/ \E s \in Sessions : Settled /\ ReadFails(s)
    \/ \E s \in Sessions : Idle /\ WriteCompletes(s)
    \/ \E s \in Sessions : Settled /\ TimerExpires(s)
    \/ RunAccept
    \/ RunRead
    \/ RunReadError
    \/ RunEnqueue
    \/ RunWrote
    \/ RunTimer
    \/ CallShutdown
    \/ Shutdown
    \/ Exit

SpecShutdown == Init /\ [][NextShutdown]_vars

\* ------------------------------------------------------------ properties
\* The trades a step appended to the log.
NewTrades == SubSeq(trades', Len(trades) + 1, Len(trades'))

\* The id by which trade t names an order of side `type`.
NamedId(t, type) == IF type = "BUY" THEN t.buyOrderId ELSE t.sellOrderId

\* The quantity of order o that the trades ts took.
TradedOf(o, ts) == SumQty(SelectSeq(ts, LAMBDA t : NamedId(t, o.type) = o.id))

\* Of the orders resting before a matchOrders call, those still resting just
\* before the k-th trade of the call's batch, with what then remains of them.
RestingAt(orders, batch, k) ==
    {[o EXCEPT !.quantity = o.quantity - TradedOf(o, SubSeq(batch, 1, k - 1))] :
        o \in {x \in Range(orders) :
                  x.quantity - TradedOf(x, SubSeq(batch, 1, k - 1)) > 0}}

\* b is the best of the buy orders bs: highest price, lowest id among equals.
IsBestBuy(b, bs) ==
    /\ b \in bs
    /\ \A o \in bs : o.price < b.price \/ (o.price = b.price /\ o.id >= b.id)

\* s is the best of the sell orders ss: lowest price, lowest id among equals.
IsBestSell(s, ss) ==
    /\ s \in ss
    /\ \A o \in ss : o.price > s.price \/ (o.price = s.price /\ o.id >= s.id)

\* C1: price-time priority.  Every trade a matchOrders call appends pairs the
\* buy order that is best among the buys resting at that moment (highest
\* price, lowest id among equal prices) with the sell order that is best
\* among the sells resting at that moment (lowest price, then lowest id).
C1_PriceTimePriority ==
    [][last'.op = "match" =>
        \A k \in 1..Len(NewTrades) :
            /\ \E b \in RestingAt(buyOrders, NewTrades, k) :
                   /\ b.id = NewTrades[k].buyOrderId
                   /\ IsBestBuy(b, RestingAt(buyOrders, NewTrades, k))
            /\ \E s \in RestingAt(sellOrders, NewTrades, k) :
                   /\ s.id = NewTrades[k].sellOrderId
                   /\ IsBestSell(s, RestingAt(sellOrders, NewTrades, k))]_vars

\* A match has traded a later, better-priced buy while an earlier buy, priced
\* below the trade, still rests.
C1_Witness ==
    /\ last.op = "match"
    /\ \E i \in DOMAIN trades : \E o \in Range(buyOrders) :
           /\ o.id < trades[i].buyOrderId
           /\ o.price < trades[i].price

\* C3: every trade executes at the price of the sell order it names, which is
\* at most the price of the buy order it names, whichever arrived first.
C3_TradeAtSellPrice ==
    [][\A k \in 1..Len(NewTrades) :
          /\ \E s \in Range(sellOrders) :
                 s.id = NewTrades[k].sellOrderId /\ NewTrades[k].price = s.price
          /\ \E b \in Range(buyOrders) :
                 b.id = NewTrades[k].buyOrderId /\ NewTrades[k].price <= b.price]_vars

\* A buy that arrived first and still rests has traded below its own limit,
\* at the price of the later sell.
C3_Witness ==
    /\ last.op = "match"
    /\ \E i \in DOMAIN trades : \E b \in Range(buyOrders) :
           /\ b.id = trades[i].buyOrderId
           /\ b.id < trades[i].sellOrderId
           /\ trades[i].price < b.price

\* The resting orders of a side.
Side(type) == IF type = "BUY" THEN buyOrders ELSE sellOrders

\* C4 as stated: on each side, resting quantity plus traded quantity equals
\* the quantity submitted through addOrder.
C4_ConservationAsStated ==
    \A type \in OrderTypes :
        SumQty(Side(type)) + SumQty(trades) = submitted[type]

\* C4, amended: on each side, resting quantity plus traded quantity plus the
\* quantity that successful cancelOrder calls removed equals the quantity
\* submitted through addOrder.
C4_Conservation ==
    \A type \in OrderTypes :
        SumQty(Side(type)) + SumQty(trades) + cancelledQty[type] = submitted[type]

\* Quantity has been traded, cancelled and is still resting, all at once.
C4_Witness ==
    /\ trades # <<>>
    /\ cancelledQty["BUY"] + cancelledQty["SELL"] > 0
    /\ buyOrders \o sellOrders # <<>>

\* The book is not crossed: every resting buy is priced strictly below every
\* resting sell (which is the case when a side is empty).
NoCross ==
    \A b \in Range(buyOrders), s \in Range(sellOrders) : b.price < s.price

\* C2: no crossed book.  Once matchOrders has returned and until the next
\* addOrder, either a side is empty or the best buy price is strictly less
\* than the best sell price; a command of a session leaves the book in such a
\* state, as BUY and SELL end with matchOrders and CANCEL adds nothing.
C2_NoCrossedBook == matched => NoCross

\* matchOrders has returned leaving orders on both sides, one tick apart, and
\* has traded.
C2_Witness ==
    /\ matched
    /\ trades # <<>>
    /\ \E b \in Range(buyOrders), s \in Range(sellOrders) : b.price + 1 = s.price

\* Position of the order with this id in a side.
PosOf(orders, id) == CHOOSE i \in DOMAIN orders : orders[i].id = id

\* C6: partial fill.  Each trade of a matchOrders call has the quantity
\* min(remaining of its buy, remaining of its sell); an order of which part
\* remains after the call still rests on its side with the same id, type and
\* price and with its quantity reduced by exactly what its trades took, ahead
\* of every order of the same price that arrived after it; an order of which
\* nothing remains rests no more.
C6_PartialFill ==
    [][last'.op = "match" =>
        /\ \A k \in 1..Len(NewTrades) :
               \E b \in RestingAt(buyOrders, NewTrades, k),
                  s \in RestingAt(sellOrders, NewTrades, k) :
                   /\ b.id = NewTrades[k].buyOrderId
                   /\ s.id = NewTrades[k].sellOrderId
                   /\ NewTrades[k].quantity = Min(b.quantity, s.quantity)
        /\ \A type \in OrderTypes :
               /\ Range(Side(type)') =
                      RestingAt(Side(type), NewTrades, Len(NewTrades) + 1)
               /\ Len(Side(type)') = Cardinality(Range(Side(type)'))
               /\ \A o \in Range(Side(type)'), later \in Range(Side(type)') :
                      (later.price = o.price /\ later.id > o.id)
                          => PosOf(Side(type)', o.id) < PosOf(Side(type)', later.id)]_vars

\* A buy order was filled in part and rests, reduced, ahead of a later buy
\* order of the same price.
C6_Witness ==
    /\ last.op = "match"
    /\ Len(buyOrders) = 2
    /\ buyOrders[1].price = buyOrders[2].price
    /\ buyOrders[1].id < buyOrders[2].id
    /\ \E i \in DOMAIN trades : trades[i].buyOrderId = buyOrders[1].id

\* The orders of both sides.
Resting == Range(buyOrders) \cup Range(sellOrders)

\* C8: cancelOrder(id) returns true exactly when an order with that id rests
\* on either side, and then removes that order and no other, leaving the
\* other orders in their places; otherwise it returns false and leaves both
\* sides unchanged; either way the trade log and the next id are unchanged
\* and no order with that id rests afterwards, so that a second
\* cancelOrder(id) returns false.
C8_CancelOrder ==
    [][\A orderId \in 1..nextOrderId :
          (last'.op = "cancel" /\ CallCancelOrder(orderId)) =>
              /\ last'.ret = (\E o \in Resting : o.id = orderId)
              /\ buyOrders' = SelectSeq(buyOrders, LAMBDA o : o.id # orderId)
              /\ sellOrders' = SelectSeq(sellOrders, LAMBDA o : o.id # orderId)
              /\ last'.ret =>
                     Len(buyOrders') + Len(sellOrders')
                         = Len(buyOrders) + Len(sellOrders) - 1
              /\ ~last'.ret => buyOrders' = buyOrders /\ sellOrders' = sellOrders
              /\ trades' = trades
              /\ nextOrderId' = nextOrderId
              /\ ~\E o \in Resting' : o.id = orderId
              /\ ~cancelOrder(Book', orderId).ret]_vars

\* A cancelOrder call returned true and left another order resting, after a
\* trade was logged.
C8_Witness ==
    /\ last.op = "cancel"
    /\ last.ret
    /\ Resting # {}
    /\ trades # <<>>

\* s is a prefix of t.
IsPrefix(s, t) == Len(s) <= Len(t) /\ s = SubSeq(t, 1, Len(s))

\* C9: recentTrades drain.  A getRecentTrades call returns, in log order, the
\* trades appended to the log since the previous call (all of the log at the
\* first call), so that the calls together have returned the log once, each
\* trade in one call; a call with nothing appended since the previous call
\* returns the empty sequence.
C9_RecentTradesDrain ==
    [][/\ IsPrefix(drained', trades')
       /\ last'.op = "recent" =>
              /\ last'.ret = SubSeq(trades, Len(drained) + 1, Len(trades))
              /\ drained' = trades
              /\ Len(drained) = Len(trades) => last'.ret = <<>>
              /\ last.op = "recent" => last'.ret = <<>>]_vars

\* A call has returned trades after an earlier call had returned others.
C9_Witness ==
    /\ last.op = "recent"
    /\ last.ret # <<>>
    /\ Len(drained) > Len(last.ret)

\* C5: the ids addOrder returned start at 1 and are strictly increasing, so
\* none is assigned twice, whatever was cancelled or filled in between; the
\* next id is one more than the number of accepted orders, so a rejected
\* command has consumed none; every resting order and every trade carries
\* ids that were assigned.
C5_OrderIds ==
    /\ ids # <<>> => ids[1] = 1
    /\ \A i \in DOMAIN ids, j \in DOMAIN ids : i < j => ids[i] < ids[j]
    /\ nextOrderId = Len(ids) + 1
    /\ \A o \in Resting : o.id \in Range(ids)
    /\ \A i \in DOMAIN trades :
           trades[i].buyOrderId \in Range(ids) /\ trades[i].sellOrderId \in Range(ids)

\* A second order was accepted after the first one had been cancelled.
C5_Witness ==
    /\ last.op = "line"
    /\ last.kind = "order"
    /\ last.orderId = 2
    /\ cancelledIds = {1}

\* The side opposite to `type`.
Opposite(type) == IF type = "BUY" THEN "SELL" ELSE "BUY"

\* The resting order o of the opposite side crosses the new order n.
Crosses(n, o) == IF n.type = "BUY" THEN o.price <= n.price ELSE o.price >= n.price

\* The orders of a set in a sequence, one after the other.
RECURSIVE SeqOfSet(_)
SeqOfSet(S) ==
    IF S = {} THEN <<>> ELSE LET x == CHOOSE x \in S : TRUE IN <<x>> \o SeqOfSet(S \ {x})

\* o is the best order of the set S of orders of its side.
IsBest(o, S) == IF o.type = "BUY" THEN IsBestBuy(o, S) ELSE IsBestSell(o, S)

\* The sweep of the new order n over the resting opposite orders X that cross
\* it, as the batch of trades must show it.
Sweep(n, X, batch) ==
    /\ \A k \in 1..Len(batch) :
           /\ NamedId(batch[k], n.type) = n.id
           /\ \E o \in X :
                  /\ o.id = NamedId(batch[k], o.type)
                  /\ IsBest(o, {x \in X : \A j \in 1..(k - 1) :
                                              NamedId(batch[j], x.type) # x.id})
                  /\ k < Len(batch) => batch[k].quantity = o.quantity
    /\ SumQty(batch) = Min(n.quantity, SumQty(SeqOfSet(X)))

\* The order the last addOrder call added, while it rests untouched.
NewOrder == Order(last.ret, last.type, last.price, last.quantity)

\* C7: multi-level sweep.  When an order is added to a book that was not
\* crossed, the matchOrders call that follows appends one trade per resting
\* opposite order it consumes, each against the new order, best resting order
\* first, every resting order but the last one taken whole; the total traded
\* quantity is min(new order's quantity, sum of the quantities of the
\* opposite orders that cross it).
C7_MultiLevelSweep ==
    [][(/\ last.op = "add"
        /\ last'.op = "match"
        /\ \A b \in Range(buyOrders) \ {NewOrder}, s \in Range(sellOrders) \ {NewOrder} :
               b.price < s.price)
       => Sweep(NewOrder,
                {o \in Range(Side(Opposite(last.type))) : Crosses(NewOrder, o)},
                NewTrades)]_vars

\* A new order has swept two resting orders at different prices: two trades
\* name it, the better-priced resting order in the first.
C7_Witness ==
    /\ last.op = "match"
    /\ Len(trades) = 2
    /\ trades[1].buyOrderId = 3
    /\ trades[2].buyOrderId = 3
    /\ trades[1].price < trades[2].price
    /\ trades[1].sellOrderId > trades[2].sellOrderId

\* The sendMessage calls of the last handled line that went to its own session.
OwnCalls == SelectSeq(last.calls, LAMBDA c : c.to = last.session)

\* The trades the last handled line appended to the log.
LineTrades == SubSeq(trades, last.from + 1, Len(trades))

\* C10: for an accepted BUY or SELL line, whichever session sent it and
\* whatever the other sessions sent before, the handler makes one sendMessage
\* call on the originating session; its message is CONFIRMED with the id
\* addOrder assigned to this order, followed by one TRADE block for each
\* trade the line's matchOrders call appended, in log order, and by nothing
\* else: no trade that an earlier command appended.
C10_OrderResponse ==
    (last.op = "line" /\ last.kind = "order") =>
        /\ Len(OwnCalls) = 1
        /\ last.order[1].id = nextOrderId - 1
        /\ OwnCalls[1].message =
               <<confirmedBlock(last.order[1].id)>>
               \o [i \in 1..Len(LineTrades) |-> tradeToString(LineTrades[i])]

\* The second session's order traded after an earlier command had traded: its
\* response carries its own trade only.
C10_Witness ==
    /\ last.op = "line"
    /\ last.kind = "order"
    /\ last.session = 2
    /\ last.from > 0
    /\ Len(trades) > last.from

\* The event loop under its scheduling, for clients that send no orders:
\* io.run() keeps taking the oldest ready handler while there is one, and the
\* transport reports the completion of every write that was started.
LiveLines == {Line("HELLO", <<>>), Line("DC", <<>>), Line("", <<>>)}

RunHandlerLive ==
    \/ RunAccept
    \/ RunReadOf(LiveLines, MaxAdds)
    \/ RunReadError
    \/ RunEnqueue
    \/ RunWrote
    \/ RunTimer

NextServerLive ==
    \/ Connect
    \/ \E s \in Sessions : LineArrives(s)
    \/ \E s \in Sessions : ReadFails(s)
    \/ \E s \in Sessions : WriteCompletes(s)
    \/ \E s \in Sessions : TimerExpires(s)
    \/ RunHandlerLive
    \/ Shutdown
    \/ Exit

SpecServerLive ==
    /\ Init
    /\ [][NextServerLive]_vars
    /\ WF_vars(RunHandlerLive)
    /\ \A s \in Sessions : SF_vars(WriteCompletes(s))

\* ------------------------------------------------------------ trade fan-out
\* The MARKET TRADE messages the last handled line sent to session y.
MarketCalls(y) ==
    LET toY == SelectSeq(last.calls,
                         LAMBDA c : c.to = y /\ c.message[1].tag = "MARKET TRADE")
    IN  [i \in DOMAIN toY |-> toY[i].message]

\* The sessions registered with the publisher (started by an accept) whose
\* object still exists, other than x.
LiveOthers(x) == {y \in 1..numAccepted : y \in Alive /\ y # x}

\* C11: when a command of session x produced trades, sendMessage is called
\* with one MARKET TRADE message per trade, in log order, on every other
\* session that is registered with the publisher and still live; on x itself,
\* and on a session whose object is gone, with none.
C11_FanOut ==
    (last.op = "line" /\ last.kind = "order") =>
        \A y \in Sessions :
            MarketCalls(y) =
                IF y \in LiveOthers(last.session)
                THEN [i \in 1..Len(LineTrades) |-> formatMarketTrade(LineTrades[i])]
                ELSE <<>>

\* A command traded while the other session was live: that session got the
\* one MARKET TRADE message, the originator none.
C11_Witness ==
    /\ last.op = "line"
    /\ last.kind = "order"
    /\ Len(LineTrades) = 1
    /\ LiveOthers(last.session) # {}
    /\ \E y \in LiveOthers(last.session) : Len(MarketCalls(y)) = 1
    /\ MarketCalls(last.session) = <<>>

\* ------------------------------------------------------------ redaction
\* What a trade shows to a session that did not originate it.
Redacted(t) == [price |-> t.price, quantity |-> t.quantity]

\* The MARKET TRADE text for the redacted view r of a trade.
MarketLine(r) ==
    <<[tag |-> "MARKET TRADE", price |-> printDouble(r.price),
       quantity |-> r.quantity]>>

\* The messages the last handled line sent to session y.
CallsTo(y) ==
    LET toY == SelectSeq(last.calls, LAMBDA c : c.to = y)
    IN  [i \in DOMAIN toY |-> toY[i].message]

\* C12: what a command's handler sends to a session other than the
\* originator is determined by the prices and quantities of the command's
\* trades alone: nothing, or one MARKET TRADE message per trade carrying the
\* price and the quantity and no order id; so two runs that differ only in
\* the order ids deliver the same sequences to the non-originators.  A TRADE
\* block, with the buy and sell ids, is only ever in a message to the
\* originator.
C12_Redaction ==
    last.op = "line" =>
        /\ \A y \in Sessions \ {last.session} :
               CallsTo(y) \in
                   {<<>>, [i \in 1..Len(LineTrades) |->
                              MarketLine(Redacted(LineTrades[i]))]}
        /\ \A i \in DOMAIN last.calls :
               (\E k \in DOMAIN last.calls[i].message :
                    last.calls[i].message[k].tag = "TRADE")
               => last.calls[i].to = last.session

\* One command traded twice, against orders with different ids, while the
\* other session was registered: it was sent two MARKET TRADE messages and the
\* originator got the detailed TRADE lines.
C12_Witness ==
    /\ last.op = "line"
    /\ Len(LineTrades) = 2
    /\ LineTrades[1].sellOrderId # LineTrades[2].sellOrderId
    /\ \E y \in Sessions \ {last.session} : Len(CallsTo(y)) = 2
    /\ Len(CallsTo(last.session)) = 1
    /\ Len(CallsTo(last.session)[1]) = 3

\* ------------------------------------------------------------ rejected input
\* C13: a line answered with INVALID INPUT (no command word, an unknown one,
\* a missing or non-numeric argument, price <= 0, quantity <= 0, CANCEL id
\* <= 0) leaves both sides of the book, the trade log, the next order id and
\* the recent-trades cursor as they were, and its handler calls sendMessage
\* once, on the session of the line, with INVALID INPUT: no other session is
\* sent anything.
C13_RejectedInput ==
    [][(last'.op = "line" /\ last'.kind = "invalid") =>
           /\ UNCHANGED bookVars
           /\ last'.calls = <<SendCall(last'.session, invalidInput)>>]_vars

\* A line was rejected while both sessions were registered, orders rested on
\* the book and trades were logged.
C13_Witness ==
    /\ last.op = "line"
    /\ last.kind = "invalid"
    /\ numAccepted = 2
    /\ trades # <<>>
    /\ buyOrders # <<>>

\* ------------------------------------------------------------ keeps reading
\* C14: after a line answered with INVALID INPUT (an empty or whitespace-only
\* line included) or with ORDER NOT FOUND, a new read is outstanding on the
\* session of the line.
C14_KeepsReading ==
    (last.op = "line" /\ last.kind \in {"invalid", "notfound"}) =>
        reading[last.session]

\* ------------------------------------------------------------ per-session order
\* The numbers of the sendMessage calls on session s whose posted tasks wait
\* in the ready queue, in queue order.
PostedTo(s) ==
    LET tasks == SelectSeq(runq, LAMBDA e : e.h = "enqueue" /\ e.session = s)
    IN  [i \in DOMAIN tasks |-> tasks[i].n]

\* The numbers of the messages in the write queue of session s, front first.
QueuedFor(s) == [i \in DOMAIN writeQueue[s] |-> writeQueue[s][i].n]

\* The read completions of session s that are ready to run.
ReadsReady(s) ==
    {i \in DOMAIN runq : runq[i].h \in {"read", "readerr"} /\ runq[i].session = s}

\* s is strictly increasing.
Increasing(s) == \A i, j \in DOMAIN s : i < j => s[i] < s[j]

\* The transport did not write other bytes than those of the message in the
\* last step.
WroteMessage ==
    last.op = "transport" => last.bytes # "other"

\* On every session the writes are started in the order of the sendMessage
\* calls: the k writes started so far are for the calls 1..k, each once; what
\* waits behind them, first in the write queue and then as posted tasks, is
\* in call order too; at most one write is outstanding; and at most one read
\* completion of the session is ready at a time, so its lines are dispatched
\* one after the other in arrival order.
StartedInOrder ==
    \A s \in Sessions :
        /\ wire[s] = [i \in 1..Len(wire[s]) |-> i]
        /\ Increasing(wire[s] \o QueuedFor(s) \o PostedTo(s))
        /\ inflight[s] <= 1
        /\ Cardinality(ReadsReady(s)) <= 1

\* C15: on every session the messages reach the transport in the order of
\* the sendMessage calls, none reordered, duplicated or interleaved with
\* another: the writes are started in call order, one at a time, and the
\* bytes each write puts on the transport are those of its message.
C15_SessionOrder == StartedInOrder /\ WroteMessage

\* ------------------------------------------------------------ disconnect report
\* The session was accepted and its object is gone.
Terminated(s) == s \in 1..numAccepted /\ s \notin Alive

\* C16: a session that has terminated, whether after a read error or end of
\* file, a write error, DC or the server's shutdown, has run the reporting
\* part of handleDisconnect exactly once: the server was notified once.
C16_NotifiedOnce ==
    \A s \in Sessions :
        /\ notified[s] <= 1
        /\ Terminated(s) => notified[s] = 1

\* C17: in a step in which session x reports its disconnection to the server,
\* the server's live set loses x and nothing else, whatever the client
\* addresses of the sessions in the set.
C17_RemovesReporter ==
    [][\A x \in Sessions :
           notified'[x] = notified[x] + 1 =>
               serverSessions' = serverSessions \ {x}]_vars

\* ------------------------------------------------------------ shutdown
\* C18: once shutdown has been requested no session is constructed, inserted
\* into the live set, registered or started any more, also when the handler
\* of an accept runs after the request, for a connection that had arrived
\* before it or for the accept that closing the acceptor aborted; and when
\* shutdown returns, and from then on, the live set is empty and the acceptor
\* is closed.
C18_NoSessionAfterShutdown ==
    [][/\ shutdownRequested' => (serverSessions' = {} /\ ~acceptorOpen')
       /\ shutdownRequested =>
              /\ numAccepted' = numAccepted
              /\ Len(publisherSessions') <= Len(publisherSessions)
              /\ Range(publisherSessions') \subseteq Range(publisherSessions)
              /\ \A s \in Sessions : reading'[s] => reading[s]
              /\ UNCHANGED clientAddress]_vars

\* Shutdown was requested while a session was connected and an accept was
\* outstanding; closing the acceptor aborted the accept, and its handler has
\* run after the request.
C18_Witness ==
    /\ shutdownRequested
    /\ io = "run"
    /\ last.op = "handler" /\ last.h = "accept" /\ last.aborted
    /\ numAccepted >= 1
    /\ serverSessions = {}
    /\ ~acceptorOpen

\* ------------------------------------------------------------ DC
\* Session s has received DC and not read since: its timer is pending, or
\* its socket is closed.  The timer's handler closes the socket; so does the
\* destructor of a session that ended otherwise, which reads no more either.
DcReceived(s) == s \in dcTimer \/ (s \in 1..numAccepted /\ ~socketOpen[s])

\* C19: the handler of a DC line calls sendMessage with the Disconnecting
\* acknowledgement on its session and starts no read; no line of a session
\* that has received DC is dispatched afterwards; and the timer's handler
\* closes the session's socket and has the server notified, after which the
\* session is not in the server's live set.
C19_DcHandling ==
    [][\A s \in Sessions :
           /\ (last'.op = "line" /\ last'.kind = "dc" /\ last'.session = s) =>
                  /\ last'.calls = <<SendCall(s, disconnecting)>>
                  /\ ~reading'[s]
                  /\ s \in dcTimer'
           /\ DcReceived(s) =>
                  /\ io' # "exited" => DcReceived(s)'
                  /\ ~(last'.op = "line" /\ last'.session = s)
                  /\ ~reading'[s]
           /\ (s \in dcTimer /\ s \notin dcTimer' /\ io' = "run") =>
                  /\ ~socketOpen'[s]
                  /\ notified'[s] = 1
                  /\ s \notin serverSessions']_vars

\* ------------------------------------------------------------ broadcast order
\* The positions in the ready queue of the posted tasks that carry a MARKET
\* TRADE message to a session whose object exists.
MarketPending ==
    {i \in DOMAIN runq :
        /\ runq[i].h = "enqueue"
        /\ runq[i].message[1].tag = "MARKET TRADE"
        /\ runq[i].session \in Alive}

\* C20 as stated: when a line is dispatched, no MARKET TRADE message of an
\* earlier command is still on its way to the write queue of a live session
\* if the line is of the session whose command triggered the trade, or if the
\* line changes the book.
C20_BroadcastOrderAsStated ==
    [][last'.op = "line" =>
           \A i \in MarketPending :
               /\ runq[i].from # last'.session
               /\ UNCHANGED <<buyOrders, sellOrders>>]_vars

\* C20, amended: when a line of session x is dispatched, no MARKET TRADE
\* message that an earlier command of x triggered is still on its way to the
\* write queue of a live session.
C20_BroadcastOrder ==
    [][last'.op = "line" =>
           \A i \in MarketPending : runq[i].from # last'.session]_vars

\* A line of one session has been dispatched while the MARKET TRADE message
\* that an earlier command of that session triggered waits in the write
\* queue of the other session.
C20_Witness ==
    /\ last.op = "line"
    /\ numAccepted = 2
    /\ \E y \in Sessions \ {last.session} :
           \E i \in DOMAIN writeQueue[y] :
               writeQueue[y][i].message[1].tag = "MARKET TRADE"

\* ------------------------------------------------------------ write queue
\* C21: a session has at most one asynchronous write outstanding, and
\* writing_ is true exactly when one is; a write is started only in a step
\* before which none was outstanding, or whose handler is the completion of
\* the outstanding one, and the message written is the front of the queue,
\* the message just pushed when the queue was empty.
C21_WriteDiscipline ==
    [][\A s \in Sessions :
           /\ inflight'[s] <= 1
           /\ s \in Alive' => (writing'[s] <=> inflight'[s] = 1)
           /\ wire'[s] # wire[s] =>
                  /\ Len(wire'[s]) = Len(wire[s]) + 1
                  /\ inflight[s] = 0 \/ Head(runq) = WriteDone(s)
                  /\ wire'[s][Len(wire'[s])] =
                         IF writeQueue[s] # <<>>
                         THEN writeQueue[s][1].n
                         ELSE Head(runq).n]_vars

\* A write is outstanding on a session while two more messages wait in its
\* queue.
C21_Witness ==
    \E s \in Sessions :
        /\ inflight[s] = 1
        /\ writing[s]
        /\ Len(writeQueue[s]) >= 2

\* ------------------------------------------------------------ no lost writes
\* The session has had a read or write error, or is closed: its object is
\* gone, its socket closed, its peer gone, or the event loop has stopped.
Excused(s) ==
    \/ disconnected[s]
    \/ ~socketOpen[s]
    \/ s \in peerClosed
    \/ s \notin Alive
    \/ io # "run"

\* Every message passed to sendMessage of s so far has been given to
\* async_write, or s is excused.
CaughtUp(s) == Len(wire[s]) = sendCount[s] \/ Excused(s)

\* C22: every message passed to sendMessage of a session is eventually
\* handed to the transport, unless the session gets a read or write error or
\* is closed: again and again the session has started a write for every call
\* made so far, every write started puts the bytes of its message on the
\* transport, and while the session has no error and is open, its queue is
\* never non-empty with writing_ false.
C22_NoLostWrites ==
    /\ [](\A s \in Sessions :
             (s \in Alive /\ ~Excused(s) /\ ~writing[s]) => writeQueue[s] = <<>>)
    /\ \A s \in Sessions : []<>CaughtUp(s)
    /\ [](last.op = "transport" => last.bytes = "message")

\* ------------------------------------------------------------ DC flush
\* The Disconnecting acknowledgement of session s has not been given to
\* async_write yet: it waits in the write queue or as a posted task.
AckPending(s) ==
    \/ \E i \in DOMAIN writeQueue[s] : writeQueue[s][i].message = disconnecting
    \/ \E i \in DOMAIN runq :
           /\ runq[i].h = "enqueue"
           /\ runq[i].session = s
           /\ runq[i].message = disconnecting

\* C23: when the socket of a session is closed after DC, the Disconnecting
\* acknowledgement, and with it every message enqueued before it, has been
\* given to the transport.
C23_AckBeforeClose ==
    [][\A s \in Sessions :
           (socketOpen[s] /\ ~socketOpen'[s]) => ~AckPending(s)]_vars

\* ------------------------------------------------------------ disconnect guard
\* C24: the server's disconnect callback is invoked at most once for a
\* session; a handler that reaches handleDisconnect on a session whose
\* disconnect was handled before (a write failure after a read failure, the
\* DC timer after a failure, or the other way round) leaves the server's
\* session set, the notifications and the disconnected_ flags as they are.
C24_DisconnectOnce ==
    [][/\ \A s \in Sessions : notified'[s] <= 1
       /\ (last'.op = "handler" /\ last'.late /\ last'.h # "enqueue") =>
              UNCHANGED <<notified, serverSessions, disconnected>>]_vars

\* The completion handler of a write has run on a session whose disconnect
\* had been handled after a read failure.
C24_Witness ==
    /\ last.op = "handler"
    /\ last.h = "wrote"
    /\ last.late
    /\ \E s \in Sessions :
           /\ notified[s] = 1
           /\ s \in peerClosed
           /\ ~reading[s]
           /\ ~writing[s]

\* ---- callbacks after the disconnect

\* The enqueue tasks waiting in the ready queue.
Posted == {i \in DOMAIN runq : runq[i].h = "enqueue"}

\* What the claim lists: a callback of a session that runs after the
\* session's disconnect was handled calls none of addOrder, cancelOrder,
\* matchOrders and getRecentTrades, publishes no trade (no sendMessage call is
\* made and the registry is left alone), starts no read and no write, and
\* does not notify the server again.
ListedEffects ==
    /\ UNCHANGED bookVars
    /\ UNCHANGED bookHist
    /\ UNCHANGED <<publisherSessions, sendCount>>
    /\ Cardinality(Posted') <= Cardinality(Posted)
    /\ \A s \in Sessions : reading'[s] => reading[s]
    /\ \A s \in Sessions : inflight'[s] <= inflight[s]
    /\ UNCHANGED wire
    /\ UNCHANGED <<notified, serverSessions>>

\* C25 as stated: a callback of a session that runs after the session's
\* disconnect was handled has no effect: none of the effects the claim lists,
\* and it leaves the session's write queue, its writing_ flag and its socket
\* as they are.
C25_NoEffectAsStated ==
    [][(last'.op = "handler" /\ last'.late) =>
           /\ ListedEffects
           /\ UNCHANGED <<writeQueue, writing, socketOpen>>]_vars

\* C25, amended: a callback of a session that runs after the session's
\* disconnect was handled has none of the effects the claim lists.
C25_NoEffectAfterDisconnect ==
    [][(last'.op = "handler" /\ last'.late) => ListedEffects]_vars

\* A message was posted to a session whose disconnect was handled before the
\* task ran, while its socket was still open and trades had been made: the
\* task ran and nothing was written.
C25_Witness ==
    /\ last.op = "handler" /\ last.h = "enqueue" /\ last.late
    /\ \E s \in Sessions :
           /\ disconnected[s] /\ socketOpen[s] /\ s \in Alive
           /\ writeQueue[s] # <<>>
           /\ ~writing[s]

\* ---- invariants of the book

\* The ids of the orders resting in the book.
RestingIds == {o.id : o \in Range(buyOrders \o sellOrders)}

\* C26: every resting order has a remaining quantity above 0; an order that a
\* trade brought to 0 is gone when matchOrders returns, and no trade takes
\* more than an order holds.
C26_PositiveQuantities ==
    \A o \in Range(buyOrders \o sellOrders) : o.quantity > 0

\* matchOrders has made a trade that filled one of its two orders, which is
\* gone, and left part of the other, which rests.
C26_Witness ==
    /\ last.op = "match"
    /\ \E i \in DOMAIN trades :
           \/ /\ trades[i].buyOrderId \notin RestingIds
              /\ \E o \in Range(sellOrders) :
                     /\ o.id = trades[i].sellOrderId
                     /\ o.quantity < MaxQty
           \/ /\ trades[i].sellOrderId \notin RestingIds
              /\ \E o \in Range(buyOrders) :
                     /\ o.id = trades[i].buyOrderId
                     /\ o.quantity < MaxQty

\* C27: the trade log only grows at its end: in every step the log before is
\* a prefix of the log after; addOrder, cancelOrder and getRecentTrades leave
\* it as it is.
C27_AppendOnly ==
    [][/\ IsPrefix(trades, trades')
       /\ last'.op \in {"add", "cancel", "recent"} => trades' = trades]_vars

\* matchOrders has appended a trade to a log that already held one, and an
\* addOrder, a cancelOrder or a getRecentTrades call followed.
C27_Witness ==
    /\ Len(trades) >= 2
    /\ trades[1].sellOrderId # trades[Len(trades)].sellOrderId
    /\ last.op \in {"add", "cancel", "recent"}
    /\ recentCursor = 1

\* C28: the cursor of the recent trades never moves back and never lies
\* beyond the end of the trade log; when a session has handled a BUY or a
\* SELL command the cursor is at the end of the log.
C28_Cursor ==
    [][/\ recentCursor' >= recentCursor
       /\ recentCursor' <= Len(trades')
       /\ (last'.op = "line" /\ last'.kind = "order")
              => recentCursor' = Len(trades')]_vars

\* A session has handled an order that made a trade, after an earlier order
\* had made one: the cursor moved from the end of the old log to the end of
\* the new one.
C28_Witness ==
    /\ last.op = "line" /\ last.kind = "order"
    /\ last.from > 0
    /\ last.from < Len(trades)
    /\ recentCursor = Len(trades)

\* A side is in the order of its comparator.
Sorted(orders, type) ==
    \A i, j \in DOMAIN orders : i < j => before(type, orders[i], orders[j])

\* C29 as stated: in every state reached through addOrder, cancelOrder and
\* matchOrders the buy side is in descending order of price, then ascending
\* order of id, and the sell side in ascending order of price, then
\* ascending order of id.
C29_SortedSidesAsStated ==
    Sorted(buyOrders, "BUY") /\ Sorted(sellOrders, "SELL")

\* C29: the two sides are in that order in every state in which matchOrders
\* has returned and addOrder was not called since, whatever was cancelled;
\* addOrder puts the new order at the back of its side, where it stays until
\* the next matchOrders call sorts.
C29_SortedSides ==
    matched => (Sorted(buyOrders, "BUY") /\ Sorted(sellOrders, "SELL"))

\* matchOrders has moved a later order in front of an earlier one and a
\* cancelOrder call has removed a third order since.
C29_Witness ==
    /\ matched
    /\ last.op = "cancel" /\ last.ret
    /\ \/ Len(buyOrders) = 2 /\ buyOrders[1].id > buyOrders[2].id
       \/ Len(sellOrders) = 2 /\ sellOrders[1].id > sellOrders[2].id

\* C30: addOrder does not match.  The call puts one order with the given
\* side, price and full quantity and the next id at the back of its side and
\* increments the next id; the orders that rested, the opposite side, the
\* trade log and the cursor are as before, also when the new order crosses
\* the opposite side.
C30_AddOnly ==
    [][last'.op = "add" =>
           LET new == Order(nextOrderId, last'.type, last'.price, last'.quantity)
           IN  /\ last'.ret = nextOrderId
               /\ nextOrderId' = nextOrderId + 1
               /\ IF last'.type = "BUY"
                  THEN /\ buyOrders' = Append(buyOrders, new)
                       /\ sellOrders' = sellOrders
                  ELSE /\ sellOrders' = Append(sellOrders, new)
                       /\ buyOrders' = buyOrders
               /\ trades' = trades
               /\ recentCursor' = recentCursor]_vars

\* addOrder has returned and its order rests at a price that crosses an
\* order of the opposite side that rested before.
C30_Witness ==
    /\ last.op = "add"
    /\ \E b \in Range(buyOrders), s \in Range(sellOrders) :
           /\ b.price >= s.price
           /\ last.ret \in {b.id, s.id}
           /\ b.quantity = last.quantity \/ s.quantity = last.quantity

\* ---- matchOrders on a book that is not crossed

\* C31: matchOrders called on a book that is not crossed (a side is empty or
\* the best buy is priced below the best sell) appends no trade and leaves
\* the resting orders of each side and their quantities as they are; and in
\* every state a second matchOrders call right after a first changes neither
\* the book nor the trade log.
C31_MatchUncrossed ==
    /\ [][(last'.op = "match" /\ NoCross) =>
              /\ trades' = trades
              /\ Range(buyOrders') = Range(buyOrders)
              /\ Len(buyOrders') = Len(buyOrders)
              /\ Range(sellOrders') = Range(sellOrders)
              /\ Len(sellOrders') = Len(sellOrders)
              /\ UNCHANGED <<nextOrderId, recentCursor>>]_vars
    /\ [](matchOrders(matchOrders(Book)) = matchOrders(Book))

\* matchOrders has returned without a trade on a book with three orders,
\* some on each side.
C31_Witness ==
    /\ last.op = "match"
    /\ trades = <<>>
    /\ buyOrders # <<>> /\ sellOrders # <<>>
    /\ Len(buyOrders) + Len(sellOrders) = 3

\* The orders resting in book b.
Count(b) == Len(b.buyOrders) + Len(b.sellOrders)

\* Every iteration of the loop started on book b appends one trade and
\* removes at least one order.
RECURSIVE EachStepFills(_)
EachStepFills(b) ==
    \/ loopEnds(b)
    \/ /\ Len(matchStep(b).trades) = Len(b.trades) + 1
       /\ Count(matchStep(b)) < Count(b)
       /\ EachStepFills(matchStep(b))

\* C32: matchOrders terminates.  Each iteration of its loop appends one trade
\* and removes at least one order that the trade filled, so that one call
\* appends at most as many trades as orders rested when it was called.
C32_MatchTerminates ==
    /\ [](EachStepFills(sortOrders(Book)))
    /\ [][last'.op = "match" =>
              /\ Len(trades') - Len(trades) <= Count(Book)
              /\ Len(trades') - Len(trades)
                     <= Count(Book) - (Len(buyOrders') + Len(sellOrders'))]_vars

\* One matchOrders call has made two trades, both against the order that was
\* added last, and has emptied the book.
C32_Witness ==
    /\ last.op = "match"
    /\ Len(trades) = 2
    /\ trades[1].buyOrderId = 3 /\ trades[2].buyOrderId = 3
    /\ buyOrders = <<>> /\ sellOrders = <<>>

\* ---- the publisher's registry

\* C33: the purge of the publisher's registry.  After a broadcast of a trade
\* and after a getSessionCount call (made when a session starts) the registry
\* holds no session that has been destroyed; getSessionCount returns the
\* number of registered sessions that live; no sendMessage call of a handler
\* is made on a destroyed session; and a session that nothing but the
\* registry refers to is not kept: it is not among the sessions left.
C33_RegistryPurge ==
    [][/\ (last'.op = "line" /\ last'.kind = "order" /\ last'.from < Len(trades'))
              => /\ Range(publisherSessions') \subseteq Alive
                 /\ Range(publisherSessions') \subseteq Alive'
       /\ last'.op = "line"
              => \A i \in DOMAIN last'.calls : last'.calls[i].to \in Alive
       /\ last'.op = "accept"
              => /\ Range(publisherSessions') \subseteq Alive'
                 /\ last'.totalClients =
                        Cardinality((Range(publisherSessions) \cap Alive)
                                    \cup {last'.session})
                 /\ Range(publisherSessions') =
                        (Range(publisherSessions) \cap Alive) \cup {last'.session}]_vars

\* The second session was destroyed while registered, and the broadcast of
\* the first trade, made by the first session, has taken it out of the
\* registry.
C33_Witness ==
    /\ last.op = "line" /\ last.kind = "order"
    /\ last.session = 1
    /\ last.from = 0 /\ Len(trades) = 1
    /\ numAccepted = 2
    /\ 2 \notin Alive
    /\ publisherSessions = <<1>>

\* ---- the trades of a command

\* C34: every trade appended by the matchOrders call of a BUY command names
\* the order just added as its buy order, every trade of a SELL command names
\* it as its sell order: a command makes no trade between two orders that
\* both rested before it.
C34_TradesNameNewOrder ==
    [][(last'.op = "line" /\ last'.kind = "order") =>
           \A i \in (last'.from + 1)..Len(trades') :
               IF last'.order[1].type = "BUY"
               THEN trades'[i].buyOrderId = last'.orderId
               ELSE trades'[i].sellOrderId = last'.orderId]_vars

\* ---- deferred tasks and the life of a session

\* C35: no enqueue task that a broadcast of a trade posted for a session runs
\* after that session was destroyed, whatever the order in which the
\* broadcast and the session's disconnect are handled.
C35_NoTaskOnDestroyedSession ==
    [][(last'.op = "handler" /\ last'.h = "enqueue"
            /\ Head(runq).from \notin {0, Head(runq).session})
           => Head(runq).session \in Alive]_vars

\* The sessions that the publisher's registry can still resolve.
Resolvable == Range(publisherSessions) \cap Alive

\* C36: the two registries agree.  Between any two handlers of the running
\* event loop the sessions that the publisher's registry can resolve are the
\* sessions of the server's set, and no session is registered twice; a
\* session whose handleDisconnect has run is in neither, and no broadcast
\* calls sendMessage on it.
C36_RegistriesAgree ==
    /\ [](io = "run" =>
              /\ Resolvable = serverSessions
              /\ \A i, j \in DOMAIN publisherSessions :
                     publisherSessions[i] = publisherSessions[j] => i = j
              /\ \A s \in Sessions :
                     disconnected[s] => s \notin Resolvable \cup serverSessions)
    /\ [][last'.op = "line" =>
              \A i \in DOMAIN last'.calls : ~disconnected[last'.calls[i].to]]_vars

\* ---- cancelled orders

\* The orders of a side without those whose id is in D.
Without(orders, D) == SelectSeq(orders, LAMBDA o : o.id \notin D)

\* C37: no trade appended after a successful cancelOrder names the order it
\* removed, as buy order or as sell order; and a cancelOrder call leaves the
\* other resting orders with their quantities, in the order they were in.
C37_CancelledStaysOut ==
    [][/\ \A i \in (Len(trades) + 1)..Len(trades') :
              /\ trades'[i].buyOrderId \notin cancelledIds'
              /\ trades'[i].sellOrderId \notin cancelledIds'
       /\ last'.op = "cancel" =>
              /\ last'.ret <=> cancelledIds' # cancelledIds
              /\ buyOrders' = Without(buyOrders, cancelledIds' \ cancelledIds)
              /\ sellOrders' = Without(sellOrders, cancelledIds' \ cancelledIds)]_vars

\* An order was cancelled while another order rested, and matchOrders has
\* since made the first trade, between two orders that are both younger than
\* the cancelled one.
C37_Witness ==
    /\ last.op = "match"
    /\ Len(trades) = 1
    /\ \E c \in cancelledIds :
           c < trades[1].buyOrderId /\ c < trades[1].sellOrderId

====
